---- MODULE Spec2Model ----
(***************************************************************************)
(* A model of the streampro ETL repository: the template-method processor  *)
(* (src/core/base_processor.py), the Landing-to-Raw stage                   *)
(* (src/core/landing_to_raw_processor.py), the job manager                  *)
(* (src/core/job_manager.py) and the pipeline orchestrator                  *)
(* (src/jobs/pipeline.py).                                                  *)
(*                                                                         *)
(* Python strings are sequences of one-character strings, so that split,   *)
(* endswith, Path.stem and the f-strings that build keys are computed the  *)
(* way the code computes them.  An optional value is None (the empty       *)
(* sequence) or Some(v) (the one-element sequence holding v).              *)
(***************************************************************************)
EXTENDS Integers, Sequences, FiniteSets, TLC

None == <<>>
Some(v) == <<v>>
IsSome(o) == Len(o) = 1
Val(o) == o[1]

(***************************************************************************)
(* Python string operations used by the processors.                        *)
(***************************************************************************)
Last(s) == s[Len(s)]

\* str.endswith(suffix)
EndsWith(s, suffix) ==
    /\ Len(s) >= Len(suffix)
    /\ SubSeq(s, Len(s) - Len(suffix) + 1, Len(s)) = suffix

\* str.endswith((a, b, c)): true when the string ends with any of the suffixes
EndsWithAny(s, suffixes) == \E suffix \in suffixes : EndsWith(s, suffix)

\* str.count(c) for a one-character c
Count(s, c) == Cardinality({i \in 1..Len(s) : s[i] = c})

\* str.split(c) for a one-character separator: empty segments are kept
RECURSIVE Split(_, _)
Split(s, c) ==
    IF \A i \in 1..Len(s) : s[i] # c
    THEN <<s>>
    ELSE LET i == CHOOSE k \in 1..Len(s) :
                      s[k] = c /\ \A j \in 1..(k - 1) : s[j] # c
         IN  <<SubSeq(s, 1, i - 1)>> \o Split(SubSeq(s, i + 1, Len(s)), c)

\* sep.join(parts)
RECURSIVE Join(_, _)
Join(parts, sep) ==
    IF Len(parts) = 0 THEN <<>>
    ELSE IF Len(parts) = 1 THEN parts[1]
    ELSE parts[1] \o sep \o Join(Tail(parts), sep)

\* parts[:-1]
AllButLast(parts) == SubSeq(parts, 1, Len(parts) - 1)

\* str.rfind(c) as a 1-based position, 0 when c does not occur
RFind(s, c) ==
    IF \A i \in 1..Len(s) : s[i] # c THEN 0
    ELSE CHOOSE k \in 1..Len(s) : s[k] = c /\ \A j \in (k + 1)..Len(s) : s[j] # c

\* pathlib.Path(name).stem for a name without '/': the name up to its last
\* dot, unless that dot is the first or the last character of the name
Stem(name) ==
    LET p == RFind(name, ".")
    IN  IF 1 < p /\ p < Len(name) THEN SubSeq(name, 1, p - 1) ELSE name

(***************************************************************************)
(* Bounds of the model.                                                    *)
(***************************************************************************)
\* the longest landing listing that is explored
MaxListing == 2
\* the number of times the to_raw job is launched, one after the other
MaxRuns == 2
\* the number of registry tables whose raw file is not a well-formed one
MaxOddTables == 1
\* the number of trusted files that an earlier run has left
MaxPrior == 1
\* the number of write and view requests of a run that the gateways refuse
MaxFaults == 1
\* the latest instant the clock is followed to
MaxClock == 1

(***************************************************************************)
(* String constants of the code and the file names, dates and prefixes the *)
(* model draws its inputs from.                                            *)
(***************************************************************************)
SLASH == <<"/">>
UNDERSCORE == <<"_">>
EXT_CSV == <<".", "c", "s", "v">>
EXT_JSON == <<".", "j", "s", "o", "n">>
EXT_JSONL == <<".", "j", "s", "o", "n", "l">>
\* the tuple of suffixes of file_name.endswith(('.csv', '.json', '.jsonl'))
TabularExtensions == {EXT_CSV, EXT_JSON, EXT_JSONL}
PARTITION == <<"/", "i", "n", "g", "e", "s", "t", "i", "o", "n", "_", "d", "a", "t", "e", "=">>

D0909 == <<"2", "0", "2", "5", "-", "0", "9", "-", "0", "9">>
D0910 == <<"2", "0", "2", "5", "-", "0", "9", "-", "1", "0">>
Dates == {D0909, D0910}
\* datetime.now().strftime("%Y-%m-%d") on the day of the run
Today == D0910

USERS == <<"u", "s", "e", "r", "s">>
EVENTS == <<"e", "v", "e", "n", "t", "s">>
VIDEOS == <<"v", "i", "d", "e", "o", "s">>
DEVICES == <<"d", "e", "v", "i", "c", "e", "s">>

\* settings.LANDING_PREFIX and the values settings.RAW_PREFIX is drawn from
LANDING_PREFIX == <<"l", "a", "n", "d", "i", "n", "g">>
RAW == <<"r", "a", "w">>
RawPrefixes == {RAW, <<"l", "a", "k", "e", "/", "r", "a", "w">>}

UsersCsv == USERS \o UNDERSCORE \o D0909 \o EXT_CSV
UsersJson == USERS \o UNDERSCORE \o D0909 \o EXT_JSON
EventsJsonl == EVENTS \o UNDERSCORE \o D0910 \o EXT_JSONL
VideosCsv == VIDEOS \o EXT_CSV
DevicesParquet == DEVICES \o UNDERSCORE \o D0909 \o <<".", "p", "a", "r", "q", "u", "e", "t">>
NotesTxt == <<"n", "o", "t", "e", "s", ".", "t", "x", "t">>

LandingKey(file_name) == LANDING_PREFIX \o SLASH \o file_name

\* file names whose stems take each way through the parsing of the stem: a
\* date and no '_', a token with '_' in it, a last segment with no, one or
\* three hyphens, and one with two hyphens that is no date
DateOnlyCsv == D0910 \o EXT_CSV
DailyUsersJson == <<"d", "a", "i", "l", "y", "_">> \o USERS \o UNDERSCORE \o D0910 \o EXT_JSON
UserEventsJsonl == <<"u", "s", "e", "r", "_">> \o EVENTS \o EXT_JSONL
UsersShortCsv == USERS \o <<"_", "0", "9", "-", "1", "0">> \o EXT_CSV
UsersLongCsv == USERS \o UNDERSCORE \o D0910 \o <<"-", "x">> \o EXT_CSV
EventsVersionJsonl == EVENTS \o <<"_", "v", "1", "-", "2", "-", "3">> \o EXT_JSONL
NoTokenCsv == UNDERSCORE \o D0910 \o EXT_CSV

StemKeys ==
    { LandingKey(UsersCsv), LandingKey(UsersJson), LandingKey(VideosCsv),
      LandingKey(DateOnlyCsv),
      LandingKey(DailyUsersJson), LandingKey(UserEventsJsonl), LandingKey(UsersShortCsv),
      LandingKey(UsersLongCsv), LandingKey(EventsVersionJsonl), LandingKey(NoTokenCsv),
      LandingKey(NotesTxt) }

\* the listings of one object and of two different objects
StemListings ==
    {<<k>> : k \in StemKeys} \cup
    {<<p[1], p[2]>> : p \in {q \in StemKeys \X StemKeys : q[1] # q[2]}}

\* the object keys a landing area may hold
LandingKeys ==
    { LandingKey(UsersCsv), LandingKey(UsersJson), LandingKey(EventsJsonl),
      LandingKey(VideosCsv), LandingKey(DevicesParquet), LandingKey(NotesTxt) }

\* the listings explored: sequences of distinct keys, at most MaxListing long
Listings ==
    UNION { { l \in [1..n -> LandingKeys] :
                \A i, j \in 1..n : i # j => l[i] # l[j] } : n \in 0..MaxListing }

(***************************************************************************)
(* A Python dict keeps insertion order: a sequence of [key, val] entries.  *)
(* Assigning to a key that is present replaces the value in place.         *)
(***************************************************************************)
DictKeys(d) == [i \in 1..Len(d) |-> d[i].key]
DictHas(d, k) == \E i \in 1..Len(d) : d[i].key = k
\* a variant that keeps the value a key already has
DictSet_KeepFirst(d, k, v) ==
    IF DictHas(d, k) THEN d ELSE Append(d, [key |-> k, val |-> v])

DictSet(d, k, v) ==
    IF DictHas(d, k)
    THEN [i \in 1..Len(d) |-> IF d[i].key = k THEN [key |-> k, val |-> v] ELSE d[i]]
    ELSE Append(d, [key |-> k, val |-> v])

(***************************************************************************)
(* LandingToRawProcessor._extract: the body of the loop over the listing.  *)
(***************************************************************************)
FileName(object_key) == Last(Split(object_key, "/"))

\* a variant without the test for '_' in the stem
HasDateSuffix_AnyStem(stem) == Count(Last(Split(stem, "_")), "-") = 2

\* '_' in stem and stem.split('_')[-1].count('-') == 2
HasDateSuffix(stem) ==
    /\ Count(stem, "_") > 0
    /\ Count(Last(Split(stem, "_")), "-") = 2

TableType(file_name) ==
    LET stem == Stem(file_name)
    IN  IF HasDateSuffix(stem)
        THEN Join(AllButLast(Split(stem, "_")), UNDERSCORE)
        ELSE stem

FileDate(file_name, ingestion_date) ==
    LET stem == Stem(file_name)
    IN  IF HasDateSuffix(stem) THEN Last(Split(stem, "_")) ELSE ingestion_date

\* a variant that leaves out the partition directory
RawKey_NoPartition(raw_prefix, file_date, file_name) ==
    raw_prefix \o SLASH \o file_name

\* f"{self.raw_prefix}/ingestion_date={file_date}/{file_name}"
RawKey(raw_prefix, file_date, file_name) ==
    raw_prefix \o PARTITION \o file_date \o SLASH \o file_name

FileInfo(object_key, ingestion_date, raw_prefix) ==
    LET file_name == FileName(object_key)
        file_date == FileDate(file_name, ingestion_date)
    IN  [ landing_key |-> object_key,
          name        |-> file_name,
          table_type  |-> TableType(file_name),
          file_date   |-> file_date,
          size        |-> 0,
          raw_key     |-> RawKey(raw_prefix, file_date, file_name) ]

\* a variant without the comparison of file_date with the target date
Selected_AnyDate(object_key, ingestion_date) ==
    EndsWithAny(FileName(object_key), TabularExtensions)

\* whether the loop body reaches extracted_files[table_type] = file_info
Selected(object_key, ingestion_date) ==
    LET file_name == FileName(object_key)
    IN  /\ EndsWithAny(file_name, TabularExtensions)
        /\ FileDate(file_name, ingestion_date) = ingestion_date

RECURSIVE ExtractLoop(_, _, _, _)
ExtractLoop(extracted_files, listing, ingestion_date, raw_prefix) ==
    IF listing = <<>> THEN extracted_files
    ELSE LET object_key == Head(listing)
             next == IF Selected(object_key, ingestion_date)
                     THEN DictSet(extracted_files,
                                  TableType(FileName(object_key)),
                                  FileInfo(object_key, ingestion_date, raw_prefix))
                     ELSE extracted_files
         IN  ExtractLoop(next, Tail(listing), ingestion_date, raw_prefix)

\* MinIOClient.list_objects: the listing, [] when the store answers with an
\* S3Error, and any other exception is raised to the caller
ListOutcomes == {"ok", "s3error", "raise"}

\* a variant whose except clause returns what the loop had collected, with
\* the listing read before the failure
LandingExtract_KeepsPartial(outcome, listing, ingestion_date, raw_prefix) ==
    ExtractLoop(<<>>, IF outcome = "s3error" THEN <<>> ELSE listing,
                ingestion_date, raw_prefix)

\* LandingToRawProcessor._extract with use_trino set: the except clause
\* around the listing and the loop returns {}
LandingExtract(outcome, listing, ingestion_date, raw_prefix) ==
    IF outcome = "raise" THEN <<>>
    ELSE ExtractLoop(<<>>,
                     IF outcome = "s3error" THEN <<>> ELSE listing,
                     ingestion_date, raw_prefix)

(***************************************************************************)
(* LandingToRawProcessor._load.  copies[i] is what copy_object does for    *)
(* the i-th descriptor: "ok" (copied, True), "false" (S3Error, False) or   *)
(* "raise" (any other exception, caught by the loop).                      *)
(***************************************************************************)
CopyOutcomes == {"ok", "false", "raise"}
CopyError == "connection reset"

RECURSIVE SelectSeq2(_, _, _)
\* the elements s[i] with keep[i], in order
SelectSeq2(s, keep, i) ==
    IF i > Len(s) THEN <<>>
    ELSE (IF keep[i] THEN <<s[i]>> ELSE <<>>) \o SelectSeq2(s, keep, i + 1)

\* a variant whose except clause forgets to record the file
FailedCopies_RaiseNotRecorded(transformed_data, copies) ==
    SelectSeq2([i \in 1..Len(transformed_data) |->
                    [ file  |-> transformed_data[i].val.name,
                      error |-> "Copy operation failed" ]],
               [i \in 1..Len(transformed_data) |-> copies[i] = "false"], 1)

FailedCopies(transformed_data, copies) ==
    SelectSeq2([i \in 1..Len(transformed_data) |->
                    [ file  |-> transformed_data[i].val.name,
                      error |-> IF copies[i] = "false"
                                THEN "Copy operation failed" ELSE CopyError ]],
               [i \in 1..Len(transformed_data) |-> copies[i] # "ok"], 1)

SuccessfulCopies(transformed_data, copies) ==
    Cardinality({i \in 1..Len(transformed_data) : copies[i] = "ok"})

LandingLoad(transformed_data, copies, raw_prefix, ingestion_date) ==
    LET successful_copies == SuccessfulCopies(transformed_data, copies)
        failed_copies == FailedCopies(transformed_data, copies)
    IN  [ success        |-> Len(failed_copies) = 0,
          message        |-> [ copied |-> successful_copies,
                               failed |-> Len(failed_copies) ],
          metadata       |-> [ successful_copies |-> successful_copies,
                               failed_copies     |-> failed_copies,
                               files_processed   |-> DictKeys(transformed_data),
                               raw_prefix        |-> raw_prefix,
                               ingestion_date    |-> ingestion_date,
                               partitioned       |-> TRUE ],
          rows_processed |-> Len(transformed_data),
          tables_created |-> <<>> ]

\* a variant that keeps an object that is already there and writes the copy
\* beside it
StorePut_KeepBoth(store, keys) ==
    store \cup { IF k \in store THEN k \o <<".", "1">> ELSE k : k \in keys }

\* client.copy_object / put_object: the object under the key is written,
\* replacing the one that was there
StorePut(store, keys) == store \cup keys

\* the raw keys that the copies of one load wrote
CopiedKeys(transformed_data, copies) ==
    { transformed_data[i].val.raw_key :
        i \in {j \in 1..Len(transformed_data) : copies[j] = "ok"} }

\* a variant whose loop stops at the first copy that does not succeed
CopyCalls_StopAtFailure(transformed_data, copies) ==
    LET n == Len(transformed_data)
        stop == IF \A i \in 1..n : copies[i] = "ok" THEN n
                ELSE CHOOSE k \in 1..n :
                        copies[k] # "ok" /\ \A j \in 1..(k - 1) : copies[j] = "ok"
    IN  [i \in 1..stop |->
            [ source_key |-> transformed_data[i].val.landing_key,
              target_key |-> transformed_data[i].val.raw_key,
              outcome    |-> copies[i] ]]

\* the copy_object calls of one load, in order
CopyCalls(transformed_data, copies) ==
    [i \in 1..Len(transformed_data) |->
        [ source_key |-> transformed_data[i].val.landing_key,
          target_key |-> transformed_data[i].val.raw_key,
          outcome    |-> copies[i] ]]

(***************************************************************************)
(* The schema registry: TRUSTED_SCHEMAS in declaration order, each table   *)
(* with its columns as (name, type) pairs.                                 *)
(***************************************************************************)
TRUSTED_ == <<"t", "r", "u", "s", "t", "e", "d", "_">>

TRUSTED_USERS == TRUSTED_ \o USERS
TRUSTED_VIDEOS == TRUSTED_ \o VIDEOS
TRUSTED_DEVICES == TRUSTED_ \o DEVICES
TRUSTED_EVENTS == TRUSTED_ \o EVENTS

TRUSTED_SCHEMAS ==
    <<
    [ name    |-> TRUSTED_USERS,
      columns |-> << <<"user_id", "VARCHAR">>,
                    <<"signup_date", "VARCHAR">>,
                    <<"subscription_tier", "VARCHAR">>,
                    <<"age_group", "VARCHAR">>,
                    <<"gender", "VARCHAR">>,
                    <<"ingestion_date", "VARCHAR">> >> ],
    [ name    |-> TRUSTED_VIDEOS,
      columns |-> << <<"video_id", "VARCHAR">>,
                    <<"title", "VARCHAR">>,
                    <<"genre", "VARCHAR">>,
                    <<"duration_seconds", "INTEGER">>,
                    <<"patent_id", "VARCHAR">>,
                    <<"ingestion_date", "VARCHAR">> >> ],
    [ name    |-> TRUSTED_DEVICES,
      columns |-> << <<"device", "VARCHAR">>,
                    <<"os", "VARCHAR">>,
                    <<"model", "VARCHAR">>,
                    <<"os_version", "DECIMAL(3,1)">>,
                    <<"ingestion_date", "VARCHAR">> >> ],
    [ name    |-> TRUSTED_EVENTS,
      columns |-> << <<"timestamp", "VARCHAR">>,
                    <<"account_id", "VARCHAR">>,
                    <<"video_id", "VARCHAR">>,
                    <<"user_id", "VARCHAR">>,
                    <<"event_name", "VARCHAR">>,
                    <<"value", "DECIMAL(2,1)">>,
                    <<"device", "VARCHAR">>,
                    <<"app_version", "VARCHAR">>,
                    <<"device_os", "VARCHAR">>,
                    <<"network_type", "VARCHAR">>,
                    <<"ip", "VARCHAR">>,
                    <<"country", "VARCHAR">>,
                    <<"session_id", "VARCHAR">>,
                    <<"ingestion_date", "VARCHAR">> >> ]
    >>

\* get_all_trusted_tables(): list(TRUSTED_SCHEMAS.keys())
GetAllTrustedTables == [i \in 1..Len(TRUSTED_SCHEMAS) |-> TRUSTED_SCHEMAS[i].name]

\* get_trusted_schema(table_name), for a name of the registry
GetTrustedSchema(table_name) ==
    TRUSTED_SCHEMAS[CHOOSE i \in 1..Len(TRUSTED_SCHEMAS) :
                        TRUSTED_SCHEMAS[i].name = table_name]

\* [col[0] for col in schema['columns']]
ColumnNames(table_name) ==
    LET columns == GetTrustedSchema(table_name).columns
    IN  [i \in 1..Len(columns) |-> columns[i][1]]

RECURSIVE Replace(_, _, _)
\* s.replace(old, new), for a non-empty old
Replace(s, old, new) ==
    IF Len(s) < Len(old) THEN s
    ELSE IF SubSeq(s, 1, Len(old)) = old
         THEN new \o Replace(SubSeq(s, Len(old) + 1, Len(s)), old, new)
         ELSE <<Head(s)>> \o Replace(Tail(s), old, new)

\* table_name.replace('trusted_', '')
TableKey(table_name) == Replace(table_name, TRUSTED_, <<>>)

(***************************************************************************)
(* A pandas DataFrame, as far as the stages look at it: its columns in     *)
(* order, the number of its rows, and the set of values in its             *)
(* ingestion_date column (empty without that column or without rows).  The *)
(* cell of row i in column c is written <<i, c>>.                          *)
(***************************************************************************)
INGESTION_DATE == "ingestion_date"
HasColumn(df, c) == \E j \in 1..Len(df.columns) : df.columns[j] = c
\* DataFrame.empty: no rows or no columns
IsEmpty(df) == df.nrows = 0 \/ Len(df.columns) = 0
\* pd.DataFrame([]), what the line reader builds from no lines
NoFrame == [columns |-> <<>>, nrows |-> 0, ingestion_dates |-> {}]

\* the rows of the large raw file that is explored
BigFileRows == 101

\* what the raw area may hold for a table: no object ("missing"), a file
\* without rows, a file with the declared columns but ingestion_date, a
\* large file that has an ingestion_date column of its own, and a file that
\* lacks the first declared column
RawKinds == {"missing", "empty", "plain", "dated", "partial"}
RawFrame(kind, table_name) ==
    LET declared == ColumnNames(table_name)
        plain == AllButLast(declared)
    IN  IF kind = "empty"
        THEN [ columns |-> IF table_name = TRUSTED_EVENTS THEN <<>> ELSE plain,
               nrows |-> 0, ingestion_dates |-> {} ]
        ELSE IF kind = "dated"
        THEN [ columns |-> declared, nrows |-> BigFileRows, ingestion_dates |-> {D0910} ]
        ELSE IF kind = "partial"
        THEN [ columns |-> Tail(plain), nrows |-> 2, ingestion_dates |-> {} ]
        ELSE [ columns |-> plain, nrows |-> 2, ingestion_dates |-> {} ]

\* an object store with the typed content of its objects: a function from
\* the keys that are present
ReadObject(store, key) == IF key \in DOMAIN store THEN Some(store[key]) ELSE None
PutObject(store, key, df) ==
    [k \in (DOMAIN store) \cup {key} |-> IF k = key THEN df ELSE store[k]]

(***************************************************************************)
(* RawToTrustedProcessor._extract.                                         *)
(***************************************************************************)
\* f"raw/ingestion_date={self.ingestion_date}/{table_key}_{self.ingestion_date}"
RawFilePath(ingestion_date, table_key) ==
    RAW \o PARTITION \o ingestion_date \o SLASH \o table_key \o UNDERSCORE \o ingestion_date

\* extract_csv: read_csv gives None when the object cannot be read, and a
\* frame that is None or empty is given up
ExtractCsv(raw_files, raw_file_path) ==
    LET df == ReadObject(raw_files, raw_file_path \o EXT_CSV)
    IN  IF df = None \/ IsEmpty(Val(df)) THEN None ELSE df

\* extract_jsonl: None when get_object or the parsing raises, and otherwise
\* the frame of the lines, whatever their number
ExtractJsonl(raw_files, raw_file_path) ==
    ReadObject(raw_files, raw_file_path \o EXT_JSONL)

\* the reader that _extract picks for a table
ReaderOf(table_key) == IF table_key = EVENTS THEN "jsonl" ELSE "csv"

ExtractFrame(raw_files, ingestion_date, table_key) ==
    IF ReaderOf(table_key) = "jsonl"
    THEN ExtractJsonl(raw_files, RawFilePath(ingestion_date, table_key))
    ELSE ExtractCsv(raw_files, RawFilePath(ingestion_date, table_key))

RECURSIVE TrustedExtractLoop(_, _, _, _)
\* the loop of _extract over the tables that are left
TrustedExtractLoop(extracted_data, tables, raw_files, ingestion_date) ==
    IF tables = <<>> THEN extracted_data
    ELSE LET table_name == Head(tables)
             table_key == TableKey(table_name)
             df == ExtractFrame(raw_files, ingestion_date, table_key)
             next == IF df # None
                     THEN DictSet(extracted_data, table_key,
                                  [dataframe |-> Val(df), trusted_table |-> table_name])
                     ELSE extracted_data
         IN  TrustedExtractLoop(next, Tail(tables), raw_files, ingestion_date)

TrustedExtract(raw_files, ingestion_date) ==
    TrustedExtractLoop(<<>>, GetAllTrustedTables, raw_files, ingestion_date)

\* the reads of the storage gateway that one _extract makes, in order
RawReads(ingestion_date) ==
    [i \in 1..Len(GetAllTrustedTables) |->
        LET table_key == TableKey(GetAllTrustedTables[i])
        IN  [ object_name |-> RawFilePath(ingestion_date, table_key)
                              \o (IF ReaderOf(table_key) = "jsonl" THEN EXT_JSONL ELSE EXT_CSV),
              reader      |-> ReaderOf(table_key) ]]

(***************************************************************************)
(* RawToTrustedProcessor._transform.                                       *)
(***************************************************************************)
\* a variant that puts the new column first
AddIngestionDate_First(df, ingestion_date) ==
    IF HasColumn(df, INGESTION_DATE) THEN df
    ELSE [ columns |-> <<INGESTION_DATE>> \o df.columns,
           nrows |-> df.nrows,
           ingestion_dates |-> IF df.nrows > 0 THEN {ingestion_date} ELSE {} ]

\* if 'ingestion_date' not in df.columns: df['ingestion_date'] = ...
AddIngestionDate(df, ingestion_date) ==
    IF HasColumn(df, INGESTION_DATE) THEN df
    ELSE [ columns |-> Append(df.columns, INGESTION_DATE),
           nrows |-> df.nrows,
           ingestion_dates |-> IF df.nrows > 0 THEN {ingestion_date} ELSE {} ]

TrustedTransform(extracted_data, ingestion_date) ==
    [i \in 1..Len(extracted_data) |->
        [ key |-> extracted_data[i].key,
          val |-> [ dataframe |-> AddIngestionDate(extracted_data[i].val.dataframe,
                                                   ingestion_date),
                    trusted_table |-> extracted_data[i].val.trusted_table ] ]]

(***************************************************************************)
(* RawToTrustedProcessor._load.  writes[i] is what upload_dataframe does   *)
(* for the i-th table: "ok" (written, True) or "false" (an exception in    *)
(* the conversion or the put, caught, False).                              *)
(***************************************************************************)
WriteOutcomes == {"ok", "false"}
WriteError == "Failed to write to MinIO"
TRUSTED == <<"t", "r", "u", "s", "t", "e", "d">>
DATA_PARQUET == <<"/", "d", "a", "t", "a", ".", "p", "a", "r", "q", "u", "e", "t">>

\* f"{self.trusted_prefix}/{table_key}/ingestion_date={self.ingestion_date}/data.parquet"
TrustedKey(trusted_prefix, table_key, ingestion_date) ==
    trusted_prefix \o SLASH \o table_key \o PARTITION \o ingestion_date \o DATA_PARQUET

\* the upload_dataframe calls of one load, in order
WriteCalls(transformed_data, writes, trusted_prefix, ingestion_date) ==
    [i \in 1..Len(transformed_data) |->
        [ object_name |-> TrustedKey(trusted_prefix, transformed_data[i].key, ingestion_date),
          df          |-> transformed_data[i].val.dataframe,
          outcome     |-> writes[i] ]]

RECURSIVE PutAll(_, _)
\* the store after the calls that succeeded
PutAll(store, calls) ==
    IF calls = <<>> THEN store
    ELSE PutAll(IF Head(calls).outcome = "ok"
                THEN PutObject(store, Head(calls).object_name, Head(calls).df)
                ELSE store,
                Tail(calls))

\* a variant that appends the table before the outcome of the write is known
TablesCreated_BeforeOutcome(transformed_data, writes) ==
    [i \in 1..Len(transformed_data) |-> transformed_data[i].val.trusted_table]

\* tables_created after the loop: the tables whose write returned True
TablesCreated(transformed_data, writes) ==
    SelectSeq2([i \in 1..Len(transformed_data) |-> transformed_data[i].val.trusted_table],
               [i \in 1..Len(transformed_data) |-> writes[i] = "ok"], 1)

\* a variant whose except clause does not record the table
FailedLoads_NotRecorded(transformed_data, writes) == <<>>

\* failed_loads after the loop
FailedLoads(transformed_data, writes) ==
    SelectSeq2([i \in 1..Len(transformed_data) |->
                    [ table |-> transformed_data[i].val.trusted_table,
                      error |-> WriteError ]],
               [i \in 1..Len(transformed_data) |-> writes[i] # "ok"], 1)

TrustedLoad(transformed_data, writes, trusted_prefix, ingestion_date) ==
    LET tables_created == TablesCreated(transformed_data, writes)
        failed_loads == FailedLoads(transformed_data, writes)
        successful_loads == Cardinality({i \in 1..Len(transformed_data) : writes[i] = "ok"})
    IN  [ success        |-> Len(failed_loads) = 0,
          message        |-> [ created |-> successful_loads,
                               failed  |-> Len(failed_loads) ],
          metadata       |-> [ successful_loads |-> successful_loads,
                               failed_loads     |-> failed_loads,
                               tables_processed |-> DictKeys(transformed_data),
                               trusted_prefix   |-> trusted_prefix,
                               ingestion_date   |-> ingestion_date,
                               format           |-> "PARQUET",
                               compression      |-> "SNAPPY",
                               partitioned      |-> TRUE,
                               trino_enabled    |-> TRUE ],
          rows_processed |-> Len(transformed_data),
          tables_created |-> tables_created ]

(***************************************************************************)
(* RawToTrustedProcessor._post_process and build_view_ddl.  views[i] is    *)
(* what the query gateway does with the DDL of the i-th registry table:    *)
(* "ok" or "raise".  The DDL text is kept as its parts: the view, the      *)
(* column list (used for SELECT and for the alias t(...)) and the value    *)
(* tuples.                                                                 *)
(***************************************************************************)
ViewOutcomes == {"ok", "raise"}
\* df.head(100)
ViewRowCap == 100

\* the value tuples of the rows taken: one literal per actual column
ValuesList(df) ==
    LET taken == IF df.nrows < ViewRowCap THEN df.nrows ELSE ViewRowCap
    IN  [i \in 1..taken |-> [j \in 1..Len(df.columns) |-> <<i, df.columns[j]>>]]

BuildViewDdl(table_name, data_values) ==
    [ view    |-> table_name,
      columns |-> ColumnNames(table_name),
      values  |-> data_values ]

\* the frame read back for a registry table, None when there is no object
ParquetOf(store, table_name, trusted_prefix, ingestion_date) ==
    ReadObject(store, TrustedKey(trusted_prefix, TableKey(table_name), ingestion_date))

\* whether the loop body reaches execute_query for the table
ViewAttempted(store, table_name, trusted_prefix, ingestion_date) ==
    LET df == ParquetOf(store, table_name, trusted_prefix, ingestion_date)
    IN  df # None /\ ~IsEmpty(Val(df)) /\ ValuesList(Val(df)) # <<>>

RECURSIVE UpToFirstRaise(_)
\* the calls up to and with the first one that the gateway refused
UpToFirstRaise(calls) ==
    IF calls = <<>> THEN <<>>
    ELSE IF Head(calls).outcome = "raise" THEN <<Head(calls)>>
    ELSE <<Head(calls)>> \o UpToFirstRaise(Tail(calls))

\* a variant whose loop ends at the first statement that the gateway refuses
ViewCalls_StopAtRaise(store, views, trusted_prefix, ingestion_date) ==
    LET tables == GetAllTrustedTables
    IN  UpToFirstRaise(SelectSeq2(
            [i \in 1..Len(tables) |->
                [ ddl |-> IF ViewAttempted(store, tables[i], trusted_prefix, ingestion_date)
                          THEN BuildViewDdl(tables[i],
                                   ValuesList(Val(ParquetOf(store, tables[i], trusted_prefix,
                                                            ingestion_date))))
                          ELSE <<>>,
                  outcome |-> views[i] ]],
            [i \in 1..Len(tables) |->
                ViewAttempted(store, tables[i], trusted_prefix, ingestion_date)], 1))

\* the DDL statements handed to the query gateway, in registry order
ViewCalls(store, views, trusted_prefix, ingestion_date) ==
    LET tables == GetAllTrustedTables
    IN  SelectSeq2(
            [i \in 1..Len(tables) |->
                [ ddl |-> IF ViewAttempted(store, tables[i], trusted_prefix, ingestion_date)
                          THEN BuildViewDdl(tables[i],
                                   ValuesList(Val(ParquetOf(store, tables[i], trusted_prefix,
                                                            ingestion_date))))
                          ELSE <<>>,
                  outcome |-> views[i] ]],
            [i \in 1..Len(tables) |->
                ViewAttempted(store, tables[i], trusted_prefix, ingestion_date)], 1)

\* external_tables_created after the loop
ExternalTablesCreated(store, views, trusted_prefix, ingestion_date) ==
    LET tables == GetAllTrustedTables
    IN  SelectSeq2(tables,
            [i \in 1..Len(tables) |->
                /\ ViewAttempted(store, tables[i], trusted_prefix, ingestion_date)
                /\ views[i] = "ok"], 1)

\* a variant that assigns the view names to tables_created
TrustedPostProcess_Replaces(load_result, external_tables_created) ==
    LET extended ==
            IF external_tables_created # <<>>
            THEN [load_result EXCEPT
                    !.tables_created = external_tables_created,
                    !.metadata = ("external_tables_created" :> Len(external_tables_created))
                                 @@ load_result.metadata]
            ELSE load_result
    IN  [extended EXCEPT
            !.metadata = ("data_lake_ready" :> TRUE) @@ ("analytics_ready" :> TRUE)
                         @@ extended.metadata]

\* a variant that sets the readiness flags with the count of the views
TrustedPostProcess_FlagsWithViews(load_result, external_tables_created) ==
    IF external_tables_created # <<>>
    THEN [load_result EXCEPT
            !.tables_created = load_result.tables_created \o external_tables_created,
            !.metadata = ("external_tables_created" :> Len(external_tables_created))
                         @@ ("data_lake_ready" :> TRUE) @@ ("analytics_ready" :> TRUE)
                         @@ load_result.metadata]
    ELSE load_result

\* load_result as _post_process leaves it
TrustedPostProcess(load_result, external_tables_created) ==
    LET extended ==
            IF external_tables_created # <<>>
            THEN [load_result EXCEPT
                    !.tables_created = load_result.tables_created \o external_tables_created,
                    !.metadata = ("external_tables_created" :> Len(external_tables_created))
                                 @@ load_result.metadata]
            ELSE load_result
    IN  [extended EXCEPT
            !.metadata = ("data_lake_ready" :> TRUE) @@ ("analytics_ready" :> TRUE)
                         @@ extended.metadata]

(***************************************************************************)
(* The areas a Raw-to-Trusted run may find.  The raw area holds what       *)
(* Landing-to-Raw wrote for RawDay under the configured raw prefix; the    *)
(* trusted area holds the files an earlier run for RawDay wrote.           *)
(***************************************************************************)
RawDay == D0909

RawFileKey(raw_prefix, table_name) ==
    LET table_key == TableKey(table_name)
    IN  RawKey(raw_prefix, RawDay,
               table_key \o UNDERSCORE \o RawDay
               \o (IF ReaderOf(table_key) = "jsonl" THEN EXT_JSONL ELSE EXT_CSV))

KindChoices ==
    { kinds \in [1..Len(GetAllTrustedTables) -> RawKinds] :
        Cardinality({i \in DOMAIN kinds : kinds[i] # "plain"}) <= MaxOddTables }

RawArea(raw_prefix, kinds) ==
    LET tables == GetAllTrustedTables
        present == {i \in DOMAIN kinds : kinds[i] # "missing"}
        IndexOf(k) == CHOOSE i \in present : RawFileKey(raw_prefix, tables[i]) = k
    IN  [ k \in {RawFileKey(raw_prefix, tables[i]) : i \in present} |->
            RawFrame(kinds[IndexOf(k)], tables[IndexOf(k)]) ]

RawAreas(raw_prefix) == {RawArea(raw_prefix, kinds) : kinds \in KindChoices}

PriorFrame(table_name) ==
    [columns |-> ColumnNames(table_name), nrows |-> 2, ingestion_dates |-> {RawDay}]

PriorStore(left) ==
    LET tables == GetAllTrustedTables
        KeyOf(i) == TrustedKey(TRUSTED, TableKey(tables[i]), RawDay)
    IN  [ k \in {KeyOf(i) : i \in left} |->
            PriorFrame(tables[CHOOSE i \in left : KeyOf(i) = k]) ]

PriorTrusted ==
    { PriorStore(left) : left \in { l \in SUBSET (1..Len(GetAllTrustedTables)) :
                                       Cardinality(l) <= MaxPrior } }

(***************************************************************************)
(* BaseProcessor.run builds the JobResult.                                 *)
(***************************************************************************)
\* a variant that spreads load_result.metadata last, so that its keys win
MergeMetadata_MetadataWins(load_result) ==
    [ k \in (DOMAIN load_result.metadata) \cup {"rows_processed", "tables_created"} |->
        IF k \in DOMAIN load_result.metadata THEN load_result.metadata[k]
        ELSE IF k = "rows_processed" THEN load_result.rows_processed
        ELSE load_result.tables_created ]

\* {**load_result.metadata, "rows_processed": ..., "tables_created": ...}
MergeMetadata(load_result) ==
    [ k \in (DOMAIN load_result.metadata) \cup {"rows_processed", "tables_created"} |->
        IF k = "rows_processed" THEN load_result.rows_processed
        ELSE IF k = "tables_created" THEN load_result.tables_created
        ELSE load_result.metadata[k] ]

\* a variant that subtracts the wrong way round
Duration_Reversed(start_time, end_time) == start_time - end_time

\* (self._end_time - self._start_time).total_seconds(), in whole seconds
Duration(start_time, end_time) == end_time - start_time

\* a variant that takes the status from the success flag of the load result
SuccessResult_StatusFromFlag(processor_id, load_result, start_time, end_time) ==
    [ job_id   |-> processor_id,
      status   |-> IF load_result.success THEN "SUCCESS" ELSE "FAILED",
      start_time |-> Some(start_time),
      end_time |-> Some(end_time),
      duration_seconds |-> Some(Duration(start_time, end_time)),
      message  |-> Some(load_result.message),
      error    |-> None,
      metadata |-> MergeMetadata(load_result) ]

SuccessResult(processor_id, load_result, start_time, end_time) ==
    [ job_id   |-> processor_id,
      status   |-> "SUCCESS",
      start_time |-> Some(start_time),
      end_time |-> Some(end_time),
      duration_seconds |-> Some(Duration(start_time, end_time)),
      message  |-> Some(load_result.message),
      error    |-> None,
      metadata |-> MergeMetadata(load_result) ]

\* a variant that drops the exception's description
FailedResult_NoError(processor_id, e, start_time, end_time) ==
    [ job_id   |-> processor_id,
      status   |-> "FAILED",
      start_time |-> start_time,
      end_time |-> Some(end_time),
      duration_seconds |-> Some(IF IsSome(start_time)
                                THEN Duration(Val(start_time), end_time) ELSE 0),
      message  |-> None,
      error    |-> None,
      metadata |-> <<>> ]

\* metadata is left None and JobResult.__post_init__ makes it {}; the
\* duration is 0 when self._start_time is not set
FailedResult(processor_id, e, start_time, end_time) ==
    [ job_id   |-> processor_id,
      status   |-> "FAILED",
      start_time |-> start_time,
      end_time |-> Some(end_time),
      duration_seconds |-> Some(IF IsSome(start_time)
                                THEN Duration(Val(start_time), end_time) ELSE 0),
      message  |-> None,
      error    |-> Some(e),
      metadata |-> <<>> ]

\* JobResult.is_success
IsSuccess(result) == result.status = "SUCCESS"

(***************************************************************************)
(* A processor written against BaseProcessor: each phase returns or raises *)
(* an exception; _load returns a ProcessingResult and _post_process may    *)
(* change it in place.                                                     *)
(***************************************************************************)
Errors == {"disk full", "timeout"}
PhaseOutcomes == {[raises |-> FALSE, error |-> ""]} \cup
                 {[raises |-> TRUE, error |-> e] : e \in Errors}

GenericMetadata ==
    { [origin |-> "generic"],
      [origin |-> "generic", rows_processed |-> 99],
      [origin |-> "generic", tables_created |-> <<"stale">>] }

GenericLoadResults ==
    { [ success        |-> ok,
        message        |-> "loaded",
        metadata       |-> m,
        rows_processed |-> n,
        tables_created |-> t ] :
        ok \in BOOLEAN, m \in GenericMetadata, n \in {0, 3}, t \in {<<>>, <<"t1">>} }

\* what an overriding _post_process does to the result it is given
PostEffects == {"none", "enrich"}
PostApply(effect, load_result) ==
    IF effect = "enrich"
    THEN [load_result EXCEPT
            !.metadata = ("note" :> "post") @@ load_result.metadata,
            !.tables_created = Append(load_result.tables_created, "view1")]
    ELSE load_result

\* the AttributeError of load_result.metadata[...] on None
NoneTypeError == "'NoneType' object has no attribute 'metadata'"

\* a variant whose summary takes no result for an empty one
LandingPostProcess_NoResultTolerated(load_result) == None

\* LandingToRawProcessor._post_process: the exception it raises, None when
\* it returns.  The summary reads load_result.metadata and changes nothing
LandingPostProcess(load_result) ==
    IF load_result = None THEN Some(NoneTypeError) ELSE None

(***************************************************************************)
(* BaseJobManager.execute: the exit code from what run() did.              *)
(***************************************************************************)
\* a variant whose except clause falls through to exit code 0
ExitCode_CrashIsZero(ret) == IF ret = "false" THEN 1 ELSE 0

ExitCode(ret) == IF ret = "true" THEN 0 ELSE 1

\* the values args.ingestion_date may have: absent, empty, or a date
ArgDates == {None, Some(<<>>)} \cup {Some(d) : d \in Dates}
\* args and hasattr(args, 'ingestion_date') and args.ingestion_date
ArgDateGiven(a) == IsSome(a) /\ Val(a) # <<>>

(***************************************************************************)
(* State.                                                                  *)
(***************************************************************************)
VARIABLES
    entry,            \* the script that was launched: "pipeline" or "job"
    args_date,        \* args.ingestion_date
    files_in_landing, \* what the store lists under the landing prefix
    raw_prefix,       \* settings.RAW_PREFIX
    raw_store,        \* the object keys present in the raw area
    copy_calls,       \* the copy_object calls made so far, in order
    list_outcome,     \* what list_objects did in _extract, None before it
    processor,        \* JobManager.processor: "none", "generic", "landing_to_raw"
    use_trino,        \* LandingToRawProcessor.use_trino
    ingestion_date,   \* the processor's ingestion_date attribute, None when unset
    pc,               \* the position of BaseProcessor.run
    phases,           \* the phases run() has called, in order
    exc,              \* the exception a phase raised, None when none did
    extracted_data,   \* the value _extract returned
    transformed_data, \* the value _transform returned
    load_result,      \* the ProcessingResult _load returned
    job_result,       \* the JobResult run() returned
    job_pc,           \* the position of JobManager.execute
    run_ret,          \* what JobManager.run did: "pending", "true", "false", "raised"
    exit_code,        \* what JobManager.execute returned
    pl_pc,            \* the position of PipelineManager.execute
    stage2,           \* the to_trusted child: "not_started", "running", "exit0", "exit1"
    pl_ret,           \* what PipelineManager.run did
    pl_exit,          \* what PipelineManager.execute returned
    run_no,           \* which launch of the job this is, counted from 1
    prev_run,         \* what the launch before this one left, None on the first
    raw_files,        \* the raw area a Raw-to-Trusted run reads: key -> content
    trusted_store,    \* the trusted area: key -> content
    raw_reads,        \* the raw reads _extract has made, in order
    write_calls,      \* the upload_dataframe calls _load has made, in order
    view_calls,       \* the view DDL handed to the query gateway, in order
    now,              \* what datetime.now() gives, in seconds
    start_time,       \* the processor's _start_time, None before run()
    end_time          \* the processor's _end_time

env_vars == <<entry, args_date, files_in_landing, raw_prefix, processor, use_trino>>
store_vars == <<raw_store, copy_calls, list_outcome>>
run_vars == <<pc, phases, exc, extracted_data, transformed_data, load_result, job_result>>
job_vars == <<job_pc, run_ret, exit_code>>
pl_vars == <<pl_pc, stage2, pl_ret, pl_exit>>
hist_vars == <<run_no, prev_run>>
lake_vars == <<raw_files, trusted_store, raw_reads, write_calls, view_calls>>
time_vars == <<now, start_time, end_time>>
vars == <<env_vars, store_vars, ingestion_date, run_vars, job_vars, pl_vars, hist_vars,
          lake_vars, time_vars>>

ProcessorId ==
    IF processor = "landing_to_raw" THEN "landing_to_raw_processor"
    ELSE IF processor = "raw_to_trusted" THEN "raw_to_trusted_processor"
    ELSE "generic_processor"

(***************************************************************************)
(* The state after main() has built the job manager and the processor.     *)
(* LandingToRawProcessor.__init__ sets use_trino to whether DataLakeManager *)
(* could be built, and only then sets the prefixes and ingestion_date.     *)
(***************************************************************************)
InitOver(listings) ==
    /\ entry \in {"pipeline", "job"}
    /\ processor \in (IF entry = "pipeline" THEN {"landing_to_raw"}
                      ELSE {"none", "generic", "landing_to_raw", "raw_to_trusted"})
    /\ use_trino \in (IF processor = "landing_to_raw" THEN BOOLEAN ELSE {FALSE})
    /\ args_date \in (IF processor \in {"landing_to_raw", "raw_to_trusted"}
                      THEN ArgDates ELSE {None})
    /\ files_in_landing \in (IF use_trino THEN listings ELSE {<<>>})
    /\ raw_prefix \in (IF use_trino \/ processor = "raw_to_trusted"
                       THEN RawPrefixes ELSE {RAW})
    /\ ingestion_date = (IF use_trino \/ processor = "raw_to_trusted"
                         THEN Some(Today) ELSE None)
    /\ raw_files \in (IF processor = "raw_to_trusted" THEN RawAreas(raw_prefix) ELSE {<<>>})
    /\ trusted_store \in (IF processor = "raw_to_trusted" THEN PriorTrusted ELSE {<<>>})
    /\ raw_reads = <<>>
    /\ write_calls = <<>>
    /\ view_calls = <<>>
    /\ now = 0
    /\ start_time = None
    /\ end_time = None
    /\ raw_store = {}
    /\ copy_calls = <<>>
    /\ list_outcome = None
    /\ pc = "not_started"
    /\ phases = <<>>
    /\ exc = None
    /\ extracted_data = None
    /\ transformed_data = None
    /\ load_result = None
    /\ job_result = None
    /\ job_pc = (IF entry = "job" THEN "start" ELSE "off")
    /\ run_ret = "pending"
    /\ exit_code = None
    /\ pl_pc = (IF entry = "pipeline" THEN "stage1_launch" ELSE "off")
    /\ stage2 = "not_started"
    /\ pl_ret = "pending"
    /\ pl_exit = None
    /\ run_no = 1
    /\ prev_run = None

Init == InitOver(Listings)

(***************************************************************************)
(* BaseJobManager.execute and JobManager.run.                              *)
(***************************************************************************)
\* execute up to the call of self.run(): arguments parsed, logging set up
Execute ==
    /\ job_pc = "start"
    /\ job_pc' = "run"
    /\ UNCHANGED <<env_vars, hist_vars, lake_vars, time_vars, store_vars, ingestion_date, run_vars, run_ret,
                   exit_code, pl_vars>>

\* JobManager.run up to the call of processor.run(): no processor returns
\* False; set_args of the Landing-to-Raw processor reads self.ingestion_date,
\* which raises when __init__ returned early and no date was given
JobRun ==
    /\ job_pc = "run"
    /\ IF processor = "none"
       THEN /\ run_ret' = "false"
            /\ job_pc' = "exit"
            /\ UNCHANGED ingestion_date
       ELSE IF processor \in {"landing_to_raw", "raw_to_trusted"} /\ ArgDateGiven(args_date)
       THEN /\ ingestion_date' = Some(Val(args_date))
            /\ job_pc' = "processor"
            /\ UNCHANGED run_ret
       ELSE IF processor = "landing_to_raw" /\ ingestion_date = None
       THEN /\ run_ret' = "false"
            /\ job_pc' = "exit"
            /\ UNCHANGED ingestion_date
       ELSE /\ job_pc' = "processor"
            /\ UNCHANGED <<ingestion_date, run_ret>>
    /\ UNCHANGED <<env_vars, hist_vars, lake_vars, time_vars, store_vars, run_vars, exit_code, pl_vars>>

\* processor.cleanup() in the finally clause: DataLakeManager.close() closes
\* the query connection, which may raise; an overriding cleanup may too
CleanupOutcomes ==
    IF processor = "landing_to_raw" /\ ~use_trino THEN {"ok"} ELSE {"ok", "raise"}

\* JobManager.run after processor.run() returned its JobResult, or after
\* its except clause caught what processor.run() raised; then the finally
\* clause
JobRunReturn ==
    /\ job_pc = "processor"
    /\ pc \in {"returned", "raised"}
    /\ \E cleanup \in CleanupOutcomes :
          run_ret' = IF cleanup = "raise" THEN "raised"
                     ELSE IF pc = "raised" THEN "false"
                     ELSE IF IsSuccess(Val(job_result)) THEN "true" ELSE "false"
    /\ job_pc' = "exit"
    /\ UNCHANGED <<env_vars, hist_vars, lake_vars, time_vars, store_vars, ingestion_date, run_vars, exit_code, pl_vars>>

\* execute returns 0 if success else 1, and 1 when run() raised
ExecuteReturn ==
    /\ job_pc = "exit"
    /\ exit_code' = Some(ExitCode(run_ret))
    /\ job_pc' = "done"
    /\ UNCHANGED <<env_vars, hist_vars, lake_vars, time_vars, store_vars, ingestion_date, run_vars, run_ret, pl_vars>>

\* what one launch of the to_raw job leaves behind: the raw area, whether
\* the listing was answered, whether every copy succeeded, and the date
RunSummary ==
    [ raw_store      |-> raw_store,
      listed         |-> list_outcome = Some("ok"),
      copied         |-> \A i \in 1..Len(copy_calls) : copy_calls[i].outcome = "ok",
      ingestion_date |-> ingestion_date ]

\* to_raw.py is launched again with the same command line over the same
\* landing area: main() builds a new job manager and a new processor, whose
\* __init__ takes today's date again; the raw area is as the launch before
\* left it
Rerun ==
    /\ entry = "job"
    /\ processor = "landing_to_raw"
    /\ use_trino
    /\ job_pc = "done"
    /\ run_no < MaxRuns
    /\ run_no' = run_no + 1
    /\ prev_run' = Some(RunSummary)
    /\ ingestion_date' = Some(Today)
    /\ copy_calls' = <<>>
    /\ list_outcome' = None
    /\ pc' = "not_started"
    /\ phases' = <<>>
    /\ exc' = None
    /\ extracted_data' = None
    /\ transformed_data' = None
    /\ load_result' = None
    /\ job_result' = None
    /\ job_pc' = "start"
    /\ run_ret' = "pending"
    /\ exit_code' = None
    /\ start_time' = None
    /\ end_time' = None
    /\ UNCHANGED <<env_vars, raw_store, pl_vars, lake_vars, now>>

(***************************************************************************)
(* BaseProcessor.run, one action per phase.  A phase that raises takes     *)
(* run() to its except clause.                                             *)
(***************************************************************************)
Running == job_pc = "processor"

\* what a phase of the processor at hand may do; the Landing-to-Raw phases
\* catch their own exceptions, the phases of another processor may raise
OutcomesOf(phase) ==
    IF processor = "generic" THEN PhaseOutcomes
    ELSE {[raises |-> FALSE, error |-> ""]}

\* a variant with the phases called outside the try block
ExceptClause_Escapes == "raised"

\* where an exception raised by a phase takes run(): the five calls are
\* inside the try block, so to its except clause ("raised" would be the
\* exception leaving run())
ExceptClause == "except"

\* a variant that swallows the exception of a phase and goes on
After_GoesOn(outcome, next) == next

\* the next position of run() after a phase
After(outcome, next) == IF outcome.raises THEN ExceptClause ELSE next
Raised(outcome) == IF outcome.raises THEN Some(outcome.error) ELSE None

\* run() is entered: the start time is taken
RunStart ==
    /\ Running
    /\ pc = "not_started"
    /\ start_time' = Some(now)
    /\ pc' = "pre_process"
    /\ UNCHANGED <<env_vars, hist_vars, lake_vars, store_vars, ingestion_date, phases, exc,
                   extracted_data, transformed_data, load_result, job_result, job_vars,
                   pl_vars, now, end_time>>

PreProcess ==
    /\ Running
    /\ pc = "pre_process"
    /\ phases' = Append(phases, "pre_process")
    /\ \E outcome \in OutcomesOf("pre_process") :
          /\ pc' = After(outcome, "extract")
          /\ exc' = Raised(outcome)
    /\ UNCHANGED <<env_vars, hist_vars, lake_vars, time_vars, store_vars, ingestion_date, extracted_data,
                   transformed_data, load_result, job_result, job_vars, pl_vars>>

Extract ==
    /\ Running
    /\ pc = "extract"
    /\ phases' = Append(phases, "extract")
    /\ IF processor = "landing_to_raw" /\ use_trino
       THEN \E outcome \in ListOutcomes :
               /\ list_outcome' = Some(outcome)
               /\ extracted_data' = Some(LandingExtract(outcome, files_in_landing,
                                                        Val(ingestion_date), raw_prefix))
               /\ pc' = "transform"
               /\ UNCHANGED <<exc, raw_reads>>
       ELSE IF processor = "landing_to_raw"
       THEN \* super()._extract() returns None
            /\ extracted_data' = None
            /\ pc' = "transform"
            /\ UNCHANGED <<exc, list_outcome, raw_reads>>
       ELSE IF processor = "raw_to_trusted"
       THEN \* a read that fails is caught per table
            /\ raw_reads' = RawReads(Val(ingestion_date))
            /\ extracted_data' = Some(TrustedExtract(raw_files, Val(ingestion_date)))
            /\ pc' = "transform"
            /\ UNCHANGED <<exc, list_outcome>>
       ELSE \E outcome \in OutcomesOf("extract") :
               /\ pc' = After(outcome, "transform")
               /\ exc' = Raised(outcome)
               /\ extracted_data' = (IF outcome.raises THEN None ELSE Some("E"))
               /\ UNCHANGED <<list_outcome, raw_reads>>
    /\ UNCHANGED <<env_vars, hist_vars, time_vars, raw_store, copy_calls, ingestion_date,
                   transformed_data, load_result, job_result, job_vars, pl_vars,
                   raw_files, trusted_store, write_calls, view_calls>>

Transform ==
    /\ Running
    /\ pc = "transform"
    /\ phases' = Append(phases, "transform")
    /\ IF processor = "landing_to_raw"
       THEN \* the extracted mapping itself, or super()._transform() = None
            /\ transformed_data' = (IF use_trino THEN extracted_data ELSE None)
            /\ pc' = "load"
            /\ UNCHANGED <<exc, extracted_data>>
       ELSE IF processor = "raw_to_trusted"
       THEN \* the column is added to the extracted frame itself, which the
            \* transformed mapping then holds too
            /\ transformed_data' = Some(TrustedTransform(Val(extracted_data),
                                                         Val(ingestion_date)))
            /\ extracted_data' = transformed_data'
            /\ pc' = "load"
            /\ UNCHANGED exc
       ELSE \E outcome \in OutcomesOf("transform") :
               /\ pc' = After(outcome, "load")
               /\ exc' = Raised(outcome)
               /\ transformed_data' = (IF outcome.raises THEN None ELSE Some("T"))
               /\ UNCHANGED extracted_data
    /\ UNCHANGED <<env_vars, hist_vars, lake_vars, time_vars, store_vars, ingestion_date,
                   load_result, job_result, job_vars, pl_vars>>

\* the requests of a run that the gateways have refused so far
Faults == Cardinality({i \in 1..Len(write_calls) : write_calls[i].outcome # "ok"})

Load ==
    /\ Running
    /\ pc = "load"
    /\ phases' = Append(phases, "load")
    /\ IF processor = "landing_to_raw" /\ use_trino
       THEN LET data == Val(transformed_data)
            IN  \E copies \in [1..Len(data) -> CopyOutcomes] :
                   /\ load_result' = Some(LandingLoad(data, copies, raw_prefix,
                                                      Val(ingestion_date)))
                   /\ raw_store' = StorePut(raw_store, CopiedKeys(data, copies))
                   /\ copy_calls' = copy_calls \o CopyCalls(data, copies)
                   /\ pc' = "post_process"
                   /\ UNCHANGED <<exc, trusted_store, write_calls>>
       ELSE IF processor = "landing_to_raw"
       THEN \* super()._load() returns None
            /\ load_result' = None
            /\ pc' = "post_process"
            /\ UNCHANGED <<exc, raw_store, copy_calls, trusted_store, write_calls>>
       ELSE IF processor = "raw_to_trusted"
       THEN LET data == Val(transformed_data)
            IN  \E writes \in [1..Len(data) -> WriteOutcomes] :
                   /\ Cardinality({i \in 1..Len(data) : writes[i] # "ok"}) <= MaxFaults
                   /\ write_calls' = WriteCalls(data, writes, TRUSTED, Val(ingestion_date))
                   /\ trusted_store' = PutAll(trusted_store, write_calls')
                   /\ load_result' = Some(TrustedLoad(data, writes, TRUSTED,
                                                      Val(ingestion_date)))
                   /\ pc' = "post_process"
                   /\ UNCHANGED <<exc, raw_store, copy_calls>>
       ELSE /\ \/ \E r \in GenericLoadResults :
                     /\ load_result' = Some(r)
                     /\ pc' = "post_process"
                     /\ UNCHANGED exc
               \/ \E e \in Errors :
                     /\ exc' = Some(e)
                     /\ pc' = ExceptClause
                     /\ UNCHANGED load_result
            /\ UNCHANGED <<raw_store, copy_calls, trusted_store, write_calls>>
    /\ UNCHANGED <<env_vars, hist_vars, time_vars, list_outcome, ingestion_date,
                   extracted_data, transformed_data, job_result, job_vars, pl_vars,
                   raw_files, raw_reads, view_calls>>

PostProcess ==
    /\ Running
    /\ pc = "post_process"
    /\ phases' = Append(phases, "post_process")
    /\ IF processor = "landing_to_raw"
       THEN /\ exc' = LandingPostProcess(load_result)
            /\ pc' = (IF exc' = None THEN "finish" ELSE ExceptClause)
            /\ UNCHANGED <<load_result, view_calls>>
       ELSE IF processor = "raw_to_trusted"
       THEN \* an exception of the read, the DDL builder or the gateway is
            \* caught per table
            \E views \in [1..Len(GetAllTrustedTables) -> ViewOutcomes] :
               /\ \A i \in DOMAIN views :
                     views[i] = "raise" =>
                        ViewAttempted(trusted_store, GetAllTrustedTables[i], TRUSTED,
                                      Val(ingestion_date))
               /\ Faults + Cardinality({i \in DOMAIN views : views[i] = "raise"})
                     <= MaxFaults
               /\ view_calls' = ViewCalls(trusted_store, views, TRUSTED,
                                          Val(ingestion_date))
               /\ load_result' =
                     Some(TrustedPostProcess(Val(load_result),
                              ExternalTablesCreated(trusted_store, views, TRUSTED,
                                                    Val(ingestion_date))))
               /\ pc' = "finish"
               /\ UNCHANGED exc
       ELSE /\ \/ \E effect \in PostEffects :
                     /\ load_result' = Some(PostApply(effect, Val(load_result)))
                     /\ pc' = "finish"
                     /\ UNCHANGED exc
               \/ \E e \in Errors :
                     /\ exc' = Some(e)
                     /\ pc' = ExceptClause
                     /\ UNCHANGED load_result
            /\ UNCHANGED view_calls
    /\ UNCHANGED <<env_vars, hist_vars, time_vars, store_vars, ingestion_date,
                   extracted_data, transformed_data, job_result, job_vars, pl_vars,
                   raw_files, trusted_store, raw_reads, write_calls>>

\* the try block after _post_process: the end time, and the SUCCESS result
RunSucceed ==
    /\ Running
    /\ pc = "finish"
    /\ end_time' = Some(now)
    /\ job_result' = Some(SuccessResult(ProcessorId, Val(load_result),
                                        Val(start_time), now))
    /\ pc' = "returned"
    /\ UNCHANGED <<env_vars, hist_vars, lake_vars, store_vars, ingestion_date, phases, exc,
                   extracted_data, transformed_data, load_result, job_vars, pl_vars,
                   now, start_time>>

\* the except clause: the end time, and the FAILED result with str(e)
RunFail ==
    /\ Running
    /\ pc = "except"
    /\ end_time' = Some(now)
    /\ job_result' = Some(FailedResult(ProcessorId, Val(exc), start_time, now))
    /\ pc' = "returned"
    /\ UNCHANGED <<env_vars, hist_vars, lake_vars, store_vars, ingestion_date, phases, exc,
                   extracted_data, transformed_data, load_result, job_vars, pl_vars,
                   now, start_time>>

\* time passes.  The clock is read when run() is entered and when it builds
\* its result, so the time that passes is taken right before a reading
Tick ==
    /\ Running
    /\ pc \in {"not_started", "finish", "except"}
    /\ now < MaxClock
    /\ now' = now + 1
    /\ UNCHANGED <<env_vars, hist_vars, lake_vars, store_vars, ingestion_date, run_vars,
                   job_vars, pl_vars, start_time, end_time>>

(***************************************************************************)
(* PipelineManager.run: the two stages as child processes.  subprocess.run *)
(* with check=True returns when the child exits 0, raises                  *)
(* CalledProcessError when it exits with another code, and raises OSError  *)
(* when the child cannot be started.  Stage 1 is the to_raw job of this    *)
(* model.  to_trusted.py imports its job manager from a module,            *)
(* src.core.simple_job_manager, that is not among the sources, so the exit *)
(* code of Stage 2 is an input here.                                       *)
(***************************************************************************)
SpawnOutcomes == {"spawned", "oserror"}

\* a variant without check=True: any exit code counts as success
ChildSucceeded_Unchecked(code) == TRUE

\* subprocess.run(..., check=True) returns only for exit code 0
ChildSucceeded(code) == code = 0

PipelineStage1 ==
    /\ pl_pc = "stage1_launch"
    /\ \E spawn \in SpawnOutcomes :
          IF spawn = "spawned"
          THEN /\ job_pc' = "start"
               /\ pl_pc' = "stage1_wait"
               /\ UNCHANGED pl_ret
          ELSE /\ pl_ret' = "raised"
               /\ pl_pc' = "exit"
               /\ UNCHANGED job_pc
    /\ UNCHANGED <<env_vars, hist_vars, lake_vars, time_vars, store_vars, ingestion_date, run_vars, run_ret, exit_code,
                   stage2, pl_exit>>

\* the child of Stage 1 has exited: CalledProcessError returns False
PipelineStage1Done ==
    /\ pl_pc = "stage1_wait"
    /\ job_pc = "done"
    /\ IF ChildSucceeded(Val(exit_code))
       THEN /\ pl_pc' = "stage2_launch"
            /\ UNCHANGED pl_ret
       ELSE /\ pl_ret' = "false"
            /\ pl_pc' = "exit"
    /\ UNCHANGED <<env_vars, hist_vars, lake_vars, time_vars, store_vars, ingestion_date, run_vars, job_vars,
                   stage2, pl_exit>>

PipelineStage2 ==
    /\ pl_pc = "stage2_launch"
    /\ \E spawn \in SpawnOutcomes :
          IF spawn = "spawned"
          THEN /\ stage2' = "running"
               /\ pl_pc' = "stage2_wait"
               /\ UNCHANGED pl_ret
          ELSE /\ pl_ret' = "raised"
               /\ pl_pc' = "exit"
               /\ UNCHANGED stage2
    /\ UNCHANGED <<env_vars, hist_vars, lake_vars, time_vars, store_vars, ingestion_date, run_vars, job_vars, pl_exit>>

PipelineStage2Done ==
    /\ pl_pc = "stage2_wait"
    /\ \E code \in {0, 1} :
          /\ stage2' = (IF code = 0 THEN "exit0" ELSE "exit1")
          /\ pl_ret' = (IF ChildSucceeded(code) THEN "true" ELSE "false")
    /\ pl_pc' = "exit"
    /\ UNCHANGED <<env_vars, hist_vars, lake_vars, time_vars, store_vars, ingestion_date, run_vars, job_vars, pl_exit>>

\* BaseJobManager.execute of the pipeline manager returns
PipelineReturn ==
    /\ pl_pc = "exit"
    /\ pl_exit' = Some(ExitCode(pl_ret))
    /\ pl_pc' = "done"
    /\ UNCHANGED <<env_vars, hist_vars, lake_vars, time_vars, store_vars, ingestion_date, run_vars, job_vars,
                   stage2, pl_ret>>

Next ==
    \/ Execute
    \/ JobRun
    \/ RunStart
    \/ PreProcess
    \/ Extract
    \/ Transform
    \/ Load
    \/ PostProcess
    \/ RunSucceed
    \/ RunFail
    \/ JobRunReturn
    \/ ExecuteReturn
    \/ PipelineStage1
    \/ PipelineStage1Done
    \/ PipelineStage2
    \/ PipelineStage2Done
    \/ PipelineReturn
    \/ Rerun

\* the program with its clock standing still: every reading is the same
Spec == Init /\ [][Next]_vars

(***************************************************************************)
(* One launch of a job script with the clock running.                      *)
(***************************************************************************)
TimedInit == Init /\ entry = "job"

TimedNext ==
    \/ Tick
    \/ Execute
    \/ JobRun
    \/ RunStart
    \/ PreProcess
    \/ Extract
    \/ Transform
    \/ Load
    \/ PostProcess
    \/ RunSucceed
    \/ RunFail
    \/ JobRunReturn
    \/ ExecuteReturn

TimedSpec == TimedInit /\ [][TimedNext]_vars

(***************************************************************************)
(* One launch of the to_raw job over a landing area that holds one or two  *)
(* objects, whose names are any of StemKeys.                               *)
(***************************************************************************)
StemInit == InitOver(StemListings) /\ entry = "job" /\ processor = "landing_to_raw"

StemNext ==
    \/ Execute
    \/ JobRun
    \/ RunStart
    \/ PreProcess
    \/ Extract
    \/ Transform
    \/ Load
    \/ PostProcess
    \/ RunSucceed
    \/ RunFail
    \/ JobRunReturn
    \/ ExecuteReturn

StemSpec == StemInit /\ [][StemNext]_vars

(***************************************************************************)
(* Properties.                                                             *)
(***************************************************************************)
PhaseOrder == <<"pre_process", "extract", "transform", "load", "post_process">>
IsPrefix(s, t) == Len(s) <= Len(t) /\ SubSeq(t, 1, Len(s)) = s
RunReturned == pc = "returned"

\* C1: when a phase raised, run() returns a JobResult with status FAILED
\* whose error is the description of that exception; the exception never
\* leaves run(), and a raised exception always has run() in or past its
\* except clause.
C1_ExceptionBecomesFailedResult ==
    /\ pc # "raised"
    /\ exc # None => pc \in {"except", "returned"}
    /\ (RunReturned /\ exc # None) =>
          /\ IsSome(job_result)
          /\ Val(job_result).status = "FAILED"
          /\ Val(job_result).error = exc
          /\ Val(job_result).job_id = ProcessorId

C1_Witness ==
    /\ RunReturned
    /\ phases = <<"pre_process", "extract", "transform", "load">>
    /\ exc = Some("timeout")
    /\ Val(job_result).status = "FAILED"

\* C2: the phases are called in the order pre-process, extract, transform,
\* load, post-process, each at most once, and after a phase has raised no
\* further phase is called.
C2_PhasesInOrder ==
    /\ [](IsPrefix(phases, PhaseOrder))
    /\ [][(exc # None /\ run_no' = run_no) => phases' = phases]_vars
    /\ [][phases' = phases \/ run_no' # run_no \/ (exc = None /\ \E ph \in {"pre_process", "extract",
            "transform", "load", "post_process"} : phases' = Append(phases, ph))]_vars

C2_Witness ==
    /\ RunReturned
    /\ phases = <<"pre_process", "extract">>
    /\ exc # None

\* C3: when all five phases returned normally the JobResult is SUCCESS, its
\* message is the ProcessingResult's, its metadata has every key of the
\* ProcessingResult's metadata as post-process left it, and rows_processed
\* and tables_created carry the ProcessingResult's fields even when the
\* metadata has keys of those names.
C3_SuccessResultCarriesLoadResult ==
    (RunReturned /\ exc = None) =>
        LET r == Val(job_result)
            lr == Val(load_result)
        IN  /\ phases = PhaseOrder
            /\ r.status = "SUCCESS"
            /\ r.message = Some(lr.message)
            /\ r.error = None
            /\ DOMAIN r.metadata =
                   (DOMAIN lr.metadata) \cup {"rows_processed", "tables_created"}
            /\ \A k \in (DOMAIN lr.metadata) \ {"rows_processed", "tables_created"} :
                   r.metadata[k] = lr.metadata[k]
            /\ r.metadata["rows_processed"] = lr.rows_processed
            /\ r.metadata["tables_created"] = lr.tables_created

C3_Witness ==
    /\ RunReturned
    /\ exc = None
    /\ processor = "generic"
    /\ "note" \in DOMAIN Val(load_result).metadata
    /\ "rows_processed" \in DOMAIN Val(load_result).metadata
    /\ Val(load_result).metadata["rows_processed"] # Val(load_result).rows_processed
    /\ Val(job_result).metadata["note"] = "post"

\* the state of one run, read off the position of run() and its result
RunState ==
    IF pc = "not_started" THEN "NOT_STARTED"
    ELSE IF pc = "returned"
         THEN (IF Val(job_result).status = "SUCCESS" THEN "SUCCEEDED" ELSE "FAILED")
         ELSE "RUNNING"

\* the positions of run() between its entry and its return, in the order
\* the code goes through them
RunPositions ==
    <<"pre_process", "extract", "transform", "load", "post_process", "finish", "except">>
PositionRank(p) ==
    IF p = "not_started" THEN 0
    ELSE IF \E i \in 1..Len(RunPositions) : RunPositions[i] = p
         THEN CHOOSE i \in 1..Len(RunPositions) : RunPositions[i] = p
         ELSE Len(RunPositions) + 1

\* C4: a run goes NOT_STARTED -> RUNNING -> SUCCEEDED or FAILED and no other
\* way; while RUNNING it is at a position of run() that has a next step and
\* every step moves it forward, so that it ends in a terminal state; there
\* is a JobResult exactly in the terminal states, its status is SUCCESS or
\* FAILED, and neither the state nor the JobResult changes after that.
C4_RunStateMachine ==
    /\ [](IsSome(job_result) <=> pc = "returned")
    /\ [](IsSome(job_result) => Val(job_result).status \in {"SUCCESS", "FAILED"})
    /\ [](RunState = "RUNNING" =>
            /\ \E i \in 1..Len(RunPositions) : RunPositions[i] = pc
            /\ job_pc = "processor")
    /\ [][ \/ RunState' = RunState
           \/ run_no' # run_no
           \/ <<RunState, RunState'>> \in { <<"NOT_STARTED", "RUNNING">>,
                                            <<"RUNNING", "SUCCEEDED">>,
                                            <<"RUNNING", "FAILED">> } ]_vars
    /\ [][(pc' # pc /\ run_no' = run_no) => PositionRank(pc') > PositionRank(pc)]_vars
    /\ [][(IsSome(job_result) /\ run_no' = run_no) => job_result' = job_result]_vars

C4_Witness ==
    /\ RunState = "FAILED"
    /\ processor = "landing_to_raw"
    /\ job_pc = "done"

\* C5: Stage 2 is started only after the Stage 1 job has ended with exit
\* code 0; when Stage 1 ended with another code Stage 2 is never started and
\* the pipeline reports failure; the pipeline reports success only when
\* Stage 1 and then Stage 2 ended with exit code 0.
C5_PipelineStagesInSequence ==
    /\ stage2 # "not_started" => (job_pc = "done" /\ exit_code = Some(0))
    /\ (job_pc = "done" /\ exit_code # Some(0)) =>
          /\ stage2 = "not_started"
          /\ pl_ret \in {"pending", "false"}
          /\ pl_pc = "done" => pl_exit = Some(1)
    /\ (pl_ret = "true" \/ pl_exit = Some(0)) =>
          /\ entry = "pipeline"
          /\ job_pc = "done"
          /\ exit_code = Some(0)
          /\ stage2 = "exit0"
    /\ (pl_ret \in {"false", "raised"} /\ pl_pc = "done") => pl_exit = Some(1)
    /\ job_pc # "off" /\ job_pc # "done" => stage2 = "not_started"

C5_Witness ==
    /\ pl_pc = "done"
    /\ exit_code = Some(1)
    /\ IsSome(job_result)
    /\ stage2 = "not_started"
    /\ pl_exit = Some(1)

\* C6: execute() returns 0 exactly when run() returned true, which it does
\* only with a SUCCESS JobResult, and returns 1 otherwise: with a FAILED
\* JobResult, with no processor set, and when run() raised.
C6_ExitCodeFollowsRun ==
    job_pc = "done" =>
        /\ IsSome(exit_code)
        /\ Val(exit_code) \in {0, 1}
        /\ Val(exit_code) = 0 <=> run_ret = "true"
        /\ run_ret = "true" => (IsSome(job_result) /\ Val(job_result).status = "SUCCESS")
        /\ (IsSome(job_result) /\ Val(job_result).status = "FAILED") => Val(exit_code) = 1
        /\ processor = "none" => Val(exit_code) = 1
        /\ run_ret = "raised" => Val(exit_code) = 1

C6_Witness ==
    /\ job_pc = "done"
    /\ run_ret = "raised"
    /\ Val(job_result).status = "SUCCESS"
    /\ exit_code = Some(1)

\* whether sub occurs in s
Contains(s, sub) ==
    \E i \in 1..(Len(s) - Len(sub) + 1) : SubSeq(s, i, i + Len(sub) - 1) = sub

\* the Landing-to-Raw processor with its gateway, once _extract has returned
LandingExtracted ==
    processor = "landing_to_raw" /\ use_trino /\ IsSome(extracted_data)
\* and once _load has returned
LandingLoaded == LandingExtracted /\ IsSome(load_result)

Scenario1 ==
    /\ files_in_landing \in { <<LandingKey(UsersCsv), LandingKey(EventsJsonl)>>,
                              <<LandingKey(EventsJsonl), LandingKey(UsersCsv)>> }
    /\ ingestion_date = Some(D0909)
    /\ list_outcome = Some("ok")

\* C7: every descriptor that extract returns is for a listed object whose
\* name ends in .csv, .json or .jsonl and carries no date other than the
\* target date, and extract raises nothing; with users_2025-09-09.csv and
\* events_2025-09-10.jsonl listed and target 2025-09-09 there is exactly the
\* users descriptor, load makes exactly one copy, rows_processed is 1, and
\* success is true when that copy succeeds.
C7_ExtractSelectsByExtensionAndDate ==
    LandingExtracted =>
        LET data == Val(extracted_data)
            target == Val(ingestion_date)
        IN  /\ exc = None
            /\ \A i \in 1..Len(data) :
                  LET d == data[i].val
                  IN  /\ \E j \in 1..Len(files_in_landing) :
                            files_in_landing[j] = d.landing_key
                      /\ \/ EndsWith(d.name, EXT_CSV)
                         \/ EndsWith(d.name, EXT_JSON)
                         \/ EndsWith(d.name, EXT_JSONL)
                      /\ \A other \in Dates \ {target} : ~Contains(d.name, other)
                      /\ d.file_date = target
            /\ Scenario1 =>
                  /\ DictKeys(data) = <<USERS>>
                  /\ data[1].val.landing_key = LandingKey(UsersCsv)
                  /\ IsSome(load_result) =>
                        /\ Len(copy_calls) = 1
                        /\ copy_calls[1].source_key = LandingKey(UsersCsv)
                        /\ Val(load_result).rows_processed = 1
                        /\ copy_calls[1].outcome = "ok" =>
                              /\ Val(load_result).success
                              /\ Cardinality(raw_store) = 1

C7_Witness ==
    /\ Scenario1
    /\ RunReturned
    /\ Val(job_result).status = "SUCCESS"
    /\ Val(load_result).success
    /\ Val(load_result).rows_processed = 1
    /\ Len(copy_calls) = 1

\* C8: after a load every extracted descriptor is either counted in
\* successful_copies or listed, once, in failed_copies, never both, so that
\* successful_copies + len(failed_copies) = the number of descriptors =
\* rows_processed.
C8_CopiesPartitionDescriptors ==
    LandingLoaded =>
        LET data == Val(transformed_data)
            lr == Val(load_result)
            failed == lr.metadata.failed_copies
            copied == {i \in 1..Len(data) : copy_calls[i].outcome = "ok"}
        IN  /\ data = Val(extracted_data)
            /\ Len(copy_calls) = Len(data)
            /\ lr.metadata.successful_copies = Cardinality(copied)
            /\ \A i \in 1..Len(data) :
                  (i \in copied) <=> ~(\E j \in 1..Len(failed) : failed[j].file = data[i].val.name)
            /\ \A j \in 1..Len(failed) :
                  \E i \in 1..Len(data) : failed[j].file = data[i].val.name
            /\ \A j, k \in 1..Len(failed) : j # k => failed[j].file # failed[k].file
            /\ lr.metadata.successful_copies + Len(failed) = Len(data)
            /\ lr.rows_processed = Len(data)

C8_Witness ==
    /\ LandingLoaded
    /\ Val(load_result).metadata.successful_copies = 1
    /\ Len(Val(load_result).metadata.failed_copies) = 1
    /\ copy_calls[2].outcome = "raise"

\* C9: a copy that returns failure or raises is listed in failed_copies, the
\* copies of all descriptors are attempted, in order, whatever the earlier
\* ones did, load raises nothing, and success is true exactly when no copy
\* failed.
C9_CopyFailureIsPerFile ==
    LandingLoaded =>
        LET data == Val(transformed_data)
            lr == Val(load_result)
            failed == lr.metadata.failed_copies
        IN  /\ exc = None
            /\ pc \in {"post_process", "finish", "returned"}
            /\ Len(copy_calls) = Len(data)
            /\ \A i \in 1..Len(data) :
                  /\ copy_calls[i].source_key = data[i].val.landing_key
                  /\ copy_calls[i].target_key = data[i].val.raw_key
                  /\ copy_calls[i].outcome # "ok" =>
                        \E j \in 1..Len(failed) : failed[j].file = data[i].val.name
            /\ lr.success <=> Len(failed) = 0
            /\ lr.success <=> \A i \in 1..Len(copy_calls) : copy_calls[i].outcome = "ok"
            /\ RunReturned => Val(job_result).status = "SUCCESS"

C9_Witness ==
    /\ LandingLoaded
    /\ RunReturned
    /\ Len(copy_calls) = 2
    /\ copy_calls[1].outcome = "raise"
    /\ copy_calls[2].outcome = "ok"
    /\ ~Val(load_result).success
    /\ Cardinality(raw_store) = 1

\* C10: when listing the landing area raises, extract returns the empty
\* mapping, load makes no copy and reports success = true, rows_processed = 0
\* and successful_copies = 0, and the run ends SUCCESS.
C10_ListingFailureIsSilent ==
    list_outcome = Some("raise") =>
        /\ LandingExtracted
        /\ Len(Val(extracted_data)) = 0
        /\ exc = None
        /\ copy_calls = <<>>
        /\ raw_store = (IF IsSome(prev_run) THEN Val(prev_run).raw_store ELSE {})
        /\ IsSome(load_result) =>
              /\ Val(load_result).success
              /\ Val(load_result).rows_processed = 0
              /\ Val(load_result).metadata.successful_copies = 0
              /\ Len(Val(load_result).metadata.failed_copies) = 0
        /\ RunReturned =>
              /\ Val(job_result).status = "SUCCESS"
              /\ Val(job_result).metadata["rows_processed"] = 0

C10_Witness ==
    /\ list_outcome = Some("raise")
    /\ Len(files_in_landing) = 2
    /\ Selected(files_in_landing[1], Val(ingestion_date))
    /\ RunReturned
    /\ Val(job_result).status = "SUCCESS"
    /\ Val(job_result).metadata["successful_copies"] = 0

IsLandingKeyOf(key, name) ==
    /\ key = LANDING_PREFIX \o SLASH \o name
    /\ \A i \in 1..Len(name) : name[i] # "/"

\* C12: every copy of a load goes to the key made of the raw prefix, the
\* partition directory of the target ingestion date and the base name of
\* the landing object; no raw key lies in the partition of another date;
\* the landing listing never changes and no copy writes to a landing key.
C12_RawKeysUnderTargetPartition ==
    /\ [](LandingLoaded =>
            \A i \in 1..Len(copy_calls) :
               LET c == copy_calls[i]
               IN  /\ \E j \in 1..Len(files_in_landing) :
                         /\ files_in_landing[j] = c.source_key
                         /\ \E n \in 1..Len(c.source_key) :
                               LET name == SubSeq(c.source_key, n, Len(c.source_key))
                               IN  /\ IsLandingKeyOf(c.source_key, name)
                                   /\ c.target_key =
                                         raw_prefix
                                         \o <<"/", "i", "n", "g", "e", "s", "t", "i", "o", "n",
                                              "_", "d", "a", "t", "e", "=">>
                                         \o Val(ingestion_date) \o <<"/">> \o name
                   /\ \A j \in 1..Len(files_in_landing) :
                         files_in_landing[j] # c.target_key)
    /\ [](LandingLoaded =>
            \A k \in raw_store :
               \A d \in Dates : Contains(k, PARTITION \o d) => ingestion_date = Some(d))
    /\ [][files_in_landing' = files_in_landing]_vars

C12_Witness ==
    /\ LandingLoaded
    /\ raw_prefix # RAW
    /\ ingestion_date = Some(D0909)
    /\ Len(copy_calls) = 2
    /\ copy_calls[1].source_key = LandingKey(VideosCsv)
    /\ copy_calls[1].outcome = "ok"
    /\ copy_calls[2].source_key = LandingKey(UsersCsv)
    /\ copy_calls[2].outcome = "ok"
    /\ Cardinality(raw_store) = 2

\* the Raw-to-Trusted processor once _extract has returned
TrustedExtracted == processor = "raw_to_trusted" /\ IsSome(extracted_data)
\* once _load has returned
TrustedLoaded == TrustedExtracted /\ IsSome(load_result)
\* and once _post_process has returned
TrustedPostProcessed == TrustedLoaded /\ pc \in {"finish", "returned"}

\* the registry table of a token, and the suffix its reader adds to the path
TableOfKey(table_key) == TRUSTED_ \o table_key
ExtensionOf(table_name) == IF table_name = TRUSTED_EVENTS THEN EXT_JSONL ELSE EXT_CSV

\* the trusted tables that the load of this run wrote
WrittenTables ==
    { TableOfKey(Val(transformed_data)[i].key) :
        i \in {j \in 1..Len(write_calls) : write_calls[j].outcome = "ok"} }

\* C13: extract makes one read per registry table, in declaration order, of
\* the path made of the configured raw prefix, the partition of the target
\* date and {token}_{date}, with the line reader (.jsonl) for events and the
\* CSV reader (.csv) for the other tables.
C13_ExtractReadsUnderRawPrefix ==
    TrustedExtracted =>
        /\ Len(raw_reads) = Len(TRUSTED_SCHEMAS)
        /\ \A i \in 1..Len(raw_reads) :
              LET table_name == TRUSTED_SCHEMAS[i].name
                  token == SubSeq(table_name, Len(TRUSTED_) + 1, Len(table_name))
                  date == Val(ingestion_date)
              IN  /\ raw_reads[i].object_name =
                        raw_prefix \o PARTITION \o date \o SLASH \o token \o UNDERSCORE
                        \o date \o ExtensionOf(table_name)
                  /\ raw_reads[i].reader =
                        (IF table_name = TRUSTED_EVENTS THEN "jsonl" ELSE "csv")

\* what the raw area holds under the path of the i-th read
FrameRead(i) == ReadObject(raw_files, raw_reads[i].object_name)

\* the raw file of events is missing and the other tables are read with rows
Scenario3 ==
    /\ TrustedExtracted
    /\ \A i \in 1..Len(raw_reads) :
          IF TRUSTED_SCHEMAS[i].name = TRUSTED_EVENTS
          THEN FrameRead(i) = None
          ELSE FrameRead(i) # None /\ ~IsEmpty(Val(FrameRead(i)))

\* C14: a table whose raw read fails or gives a frame without rows, events
\* as well as the CSV tables, is not in the extracted mapping, and the
\* others are; with the events file missing and the other tables read and
\* written the load reports success.
C14_FailedOrEmptyReadIsSkipped ==
    TrustedExtracted =>
        /\ \A i \in 1..Len(raw_reads) :
              LET token == TableKey(TRUSTED_SCHEMAS[i].name)
              IN  DictHas(Val(extracted_data), token)
                    <=> (FrameRead(i) # None /\ ~IsEmpty(Val(FrameRead(i))))
        /\ (Scenario3 /\ IsSome(load_result)
             /\ \A j \in 1..Len(write_calls) : write_calls[j].outcome = "ok")
              => /\ Val(load_result).success
                 /\ Val(load_result).rows_processed = Len(TRUSTED_SCHEMAS) - 1

\* C15: every frame that a run writes to the trusted area has an
\* ingestion_date column, and every value of that column is the target
\* ingestion date, also when the raw file had such a column.
C15_WrittenFramesCarryTargetDate ==
    TrustedLoaded =>
        \A i \in 1..Len(write_calls) :
           write_calls[i].outcome = "ok" =>
              LET df == trusted_store[write_calls[i].object_name]
              IN  /\ HasColumn(df, INGESTION_DATE)
                  /\ df.ingestion_dates \subseteq {Val(ingestion_date)}

\* C16: load calls the write of every transformed table, in order, whatever
\* the earlier writes did; a write that fails is listed in failed_loads;
\* success is true exactly when failed_loads is empty; tables_created, as
\* load returns it, is the list of the trusted tables whose write succeeded;
\* successful_loads + len(failed_loads) is the number of transformed tables.
C16_WriteFailureIsPerTable ==
    TrustedLoaded =>
        LET data == Val(transformed_data)
            lr == Val(load_result)
            failed == lr.metadata.failed_loads
            written == {i \in 1..Len(data) : write_calls[i].outcome = "ok"}
        IN  /\ exc = None
            /\ Len(write_calls) = Len(data)
            /\ \A i \in 1..Len(data) :
                  /\ write_calls[i].df = data[i].val.dataframe
                  /\ (i \notin written) <=>
                        \E j \in 1..Len(failed) :
                           failed[j].table = data[i].val.trusted_table
            /\ \A j \in 1..Len(failed) :
                  \E i \in 1..Len(data) : failed[j].table = data[i].val.trusted_table
            /\ lr.success <=> Len(failed) = 0
            /\ lr.success <=> written = 1..Len(data)
            /\ lr.metadata.successful_loads = Cardinality(written)
            /\ lr.metadata.successful_loads + Len(failed) = Len(data)
            /\ Len(lr.tables_created) >= Cardinality(written)
            /\ \A i \in written :
                  \E j \in 1..Cardinality(written) :
                     /\ lr.tables_created[j] = data[i].val.trusted_table
                     /\ j = Cardinality({k \in written : k <= i})
            /\ pc = "post_process" => Len(lr.tables_created) = Cardinality(written)

C16_Witness ==
    /\ TrustedLoaded
    /\ pc = "post_process"
    /\ Len(write_calls) = 4
    /\ write_calls[2].outcome = "false"
    /\ write_calls[3].outcome = "ok"
    /\ Val(load_result).tables_created = <<TRUSTED_USERS, TRUSTED_DEVICES, TRUSTED_EVENTS>>
    /\ ~Val(load_result).success

\* C17: post-process hands the gateway a view only for a table that the
\* load of this run wrote, whatever the trusted area held before.
C17_ViewsOnlyForTablesJustWritten ==
    TrustedPostProcessed =>
        /\ \A j \in 1..Len(view_calls) : view_calls[j].ddl.view \in WrittenTables
        /\ \A j \in 1..Len(Val(load_result).tables_created) :
              Val(load_result).tables_created[j] \in WrittenTables

\* C18: the DDL of a view has one value tuple per row taken from the file
\* read back, min(rows, 100) of them, lists the declared columns of the
\* table in declared order, and every value tuple has the cell of each
\* declared column, in that order.
C18_ViewDdlFollowsDeclaredColumns ==
    TrustedPostProcessed =>
        \A j \in 1..Len(view_calls) :
           LET ddl == view_calls[j].ddl
               schema == CHOOSE t \in {TRUSTED_SCHEMAS[i] : i \in 1..Len(TRUSTED_SCHEMAS)} :
                            t.name = ddl.view
               declared == [k \in 1..Len(schema.columns) |-> schema.columns[k][1]]
               token == SubSeq(ddl.view, Len(TRUSTED_) + 1, Len(ddl.view))
               df == trusted_store[TrustedKey(TRUSTED, token, Val(ingestion_date))]
           IN  /\ ddl.columns = declared
               /\ Len(ddl.values) = (IF df.nrows < 100 THEN df.nrows ELSE 100)
               /\ \A i \in 1..Len(ddl.values) :
                     ddl.values[i] = [k \in 1..Len(declared) |-> <<i, declared[k]>>]

\* the items of a run for which metadata lists an error: the files of
\* failed_copies, the tables of failed_loads
RecordedErrors ==
    IF LandingLoaded
    THEN { Val(load_result).metadata.failed_copies[j].file :
             j \in 1..Len(Val(load_result).metadata.failed_copies) }
    ELSE IF TrustedLoaded
    THEN { Val(load_result).metadata.failed_loads[j].table :
             j \in 1..Len(Val(load_result).metadata.failed_loads) }
    ELSE {}

\* the items whose copy or write failed
TransferErrors ==
    IF LandingLoaded
    THEN { Val(transformed_data)[i].val.name :
             i \in {j \in 1..Len(copy_calls) : copy_calls[j].outcome # "ok"} }
    ELSE IF TrustedLoaded
    THEN { Val(transformed_data)[i].val.trusted_table :
             i \in {j \in 1..Len(write_calls) : write_calls[j].outcome # "ok"} }
    ELSE {}

\* the registry tables whose raw read gave nothing
ReadErrors ==
    IF TrustedExtracted
    THEN { TRUSTED_SCHEMAS[i].name : i \in {j \in 1..Len(raw_reads) : FrameRead(j) = None} }
    ELSE {}

\* the registry tables whose view the gateway refused
ViewErrors ==
    { view_calls[j].ddl.view : j \in {k \in 1..Len(view_calls) : view_calls[k].outcome # "ok"} }

\* every item is worked on whatever happened to the others: one read per
\* registry table, one copy or write per extracted item, one view request
\* per registry table with a non-empty trusted file, and no exception
SiblingsProcessed ==
    /\ (LandingLoaded \/ TrustedExtracted) => exc = None
    /\ LandingLoaded => Len(copy_calls) = Len(Val(transformed_data))
    /\ TrustedExtracted => Len(raw_reads) = Len(TRUSTED_SCHEMAS)
    /\ TrustedLoaded => Len(write_calls) = Len(Val(transformed_data))
    /\ TrustedPostProcessed =>
          \A i \in 1..Len(TRUSTED_SCHEMAS) :
             LET key == TrustedKey(TRUSTED, TableKey(TRUSTED_SCHEMAS[i].name),
                                   Val(ingestion_date))
             IN  (key \in DOMAIN trusted_store /\ ~IsEmpty(trusted_store[key]))
                    => \E j \in 1..Len(view_calls) :
                          view_calls[j].ddl.view = TRUSTED_SCHEMAS[i].name

\* C19 as it was stated: every per-item error, of a copy, a raw read, a
\* write or a view registration, is listed in the metadata of the run.
C19_Original_EveryItemErrorRecorded ==
    (LandingLoaded \/ TrustedLoaded) =>
        (TransferErrors \cup ReadErrors \cup ViewErrors) \subseteq RecordedErrors

\* C19: the error of a copy or of a write is listed in the metadata of the
\* run (failed_copies, failed_loads), and nothing else is; the error of a
\* raw read or of a view registration is not listed; none of the four stops
\* the work on the sibling items, and the run still ends SUCCESS.
C19_TransferErrorsRecordedSiblingsProcessed ==
    /\ (LandingLoaded \/ TrustedLoaded) => RecordedErrors = TransferErrors
    /\ SiblingsProcessed
    /\ (RunReturned /\ (LandingLoaded \/ TrustedLoaded)) =>
          /\ Val(job_result).status = "SUCCESS"
          /\ TrustedLoaded =>
                Val(job_result).metadata["failed_loads"] =
                    Val(load_result).metadata.failed_loads

C19_Witness ==
    /\ TrustedLoaded
    /\ RunReturned
    /\ ReadErrors = {TRUSTED_VIDEOS}
    /\ TransferErrors = {TRUSTED_DEVICES}
    /\ RecordedErrors = {TRUSTED_DEVICES}
    /\ Len(write_calls) = 3
    /\ Len(view_calls) = 2

\* a run in which the gateway refused a view
C19_ViewErrorWitness ==
    /\ TrustedLoaded
    /\ RunReturned
    /\ ViewErrors = {TRUSTED_USERS}
    /\ RecordedErrors = {}
    /\ Len(view_calls) = 4

\* C20: on the success path and on the failure path the JobResult has a
\* start time and an end time with end_time >= start_time, and
\* duration_seconds is their difference and is >= 0; the start is read
\* before pre-process, the end after post-process or in the except clause.
C20_DurationNonNegative ==
    /\ IsSome(start_time) <=> pc # "not_started"
    /\ IsSome(end_time) <=> pc = "returned"
    /\ (phases # <<>>) => IsSome(start_time)
    /\ IsSome(end_time) =>
          (phases = PhaseOrder /\ exc = None) \/ exc # None
    /\ RunReturned =>
          LET r == Val(job_result)
          IN  /\ r.start_time = start_time
              /\ r.end_time = end_time
              /\ Val(r.end_time) >= Val(r.start_time)
              /\ Val(r.end_time) <= now
              /\ Val(r.duration_seconds) = Val(r.end_time) - Val(r.start_time)
              /\ Val(r.duration_seconds) >= 0

C20_Witness ==
    /\ RunReturned
    /\ Val(job_result).status = "FAILED"
    /\ exc # None
    /\ Val(job_result).start_time = Some(0)
    /\ Val(job_result).end_time = Some(1)
    /\ Val(job_result).duration_seconds = Some(1)

\* the part of a stem after its last '_' (the whole stem when it has none)
\* and the part before that '_'
LastSegment(stem) == SubSeq(stem, RFind(stem, "_") + 1, Len(stem))
BeforeLastSegment(stem) == SubSeq(stem, 1, RFind(stem, "_") - 1)

\* C21: for a listed file with a tabular extension, when the last
\* '_'-delimited segment of a stem that has a '_' contains exactly two
\* hyphens, the token is what precedes that segment, the segment is the
\* file's date, and the file is selected exactly when that date is the target
\* date; otherwise (a stem with no '_' included) the token is the whole stem,
\* the file's date is the target date, and the file is selected.
C21_StemGivesTokenAndDate ==
    (LandingExtracted /\ list_outcome = Some("ok") /\ Len(files_in_landing) = 1) =>
        LET data == Val(extracted_data)
            target == Val(ingestion_date)
            name == FileName(files_in_landing[1])
            stem == Stem(name)
            tabular == \E ext \in TabularExtensions : EndsWith(name, ext)
            dated == RFind(stem, "_") > 0 /\ Count(LastSegment(stem), "-") = 2
        IN  /\ ~tabular => data = <<>>
            /\ (tabular /\ dated) =>
                  /\ Len(data) = 1 <=> LastSegment(stem) = target
                  /\ Len(data) = 1 =>
                        /\ data[1].key = BeforeLastSegment(stem)
                        /\ data[1].val.table_type = BeforeLastSegment(stem)
                        /\ data[1].val.file_date = LastSegment(stem)
            /\ (tabular /\ ~dated) =>
                  /\ Len(data) = 1
                  /\ data[1].key = stem
                  /\ data[1].val.table_type = stem
                  /\ data[1].val.file_date = target
                  /\ data[1].val.name = name

C21_Witness ==
    /\ LandingLoaded
    /\ files_in_landing = <<LandingKey(DateOnlyCsv)>>
    /\ ingestion_date = Some(D0909)
    /\ DictKeys(Val(extracted_data)) = <<D0910>>
    /\ Val(extracted_data)[1].val.file_date = D0909
    /\ Len(copy_calls) = 1

\* the positions of the listing whose file is selected, and among them the
\* ones that a later selected file of the same token follows
SelectedAt ==
    {j \in 1..Len(files_in_landing) : Selected(files_in_landing[j], Val(ingestion_date))}
TokenAt(j) == TableType(FileName(files_in_landing[j]))
Superseded == {j \in SelectedAt : \E k \in SelectedAt : k > j /\ TokenAt(k) = TokenAt(j)}

\* C22: of the selected files of one token, extract keeps one descriptor,
\* that of the file listed last; a file listed earlier is not copied and is
\* not in failed_copies, and successful_copies, failed_copies and
\* files_processed count one entry per token.
C22_LastListedFileOfTokenWins ==
    (LandingExtracted /\ list_outcome = Some("ok")) =>
        LET data == Val(extracted_data)
            tokens == {TokenAt(j) : j \in SelectedAt}
        IN  /\ Len(data) = Cardinality(tokens)
            /\ \A j \in SelectedAt \ Superseded :
                  \E i \in 1..Len(data) :
                     /\ data[i].key = TokenAt(j)
                     /\ data[i].val.landing_key = files_in_landing[j]
            /\ \A j \in Superseded :
                  \A i \in 1..Len(data) : data[i].val.landing_key # files_in_landing[j]
            /\ IsSome(load_result) =>
                  LET lr == Val(load_result)
                  IN  /\ Len(copy_calls) = Cardinality(tokens)
                      /\ \A j \in Superseded :
                            /\ \A c \in 1..Len(copy_calls) :
                                  copy_calls[c].source_key # files_in_landing[j]
                            /\ \A f \in 1..Len(lr.metadata.failed_copies) :
                                  lr.metadata.failed_copies[f].file
                                     # FileName(files_in_landing[j])
                      /\ lr.metadata.successful_copies + Len(lr.metadata.failed_copies)
                            = Cardinality(tokens)
                      /\ Len(lr.metadata.files_processed) = Cardinality(tokens)
                      /\ {lr.metadata.files_processed[i] :
                             i \in 1..Len(lr.metadata.files_processed)} = tokens

C22_Witness ==
    /\ LandingLoaded
    /\ files_in_landing = <<LandingKey(UsersCsv), LandingKey(UsersJson)>>
    /\ ingestion_date = Some(D0909)
    /\ Superseded = {1}
    /\ Len(copy_calls) = 1
    /\ copy_calls[1].source_key = LandingKey(UsersJson)
    /\ Val(load_result).metadata.files_processed = <<USERS>>
    /\ Val(load_result).metadata.successful_copies = 1

\* C23: the transform of Raw-to-Trusted raises nothing and goes on to load;
\* what it returns has the keys of what it was given, in order, each with
\* the same trusted-table name, the same number of rows and the same columns
\* in the same order, followed by ingestion_date when the frame had no such
\* column; a frame that had the column is returned as it was.
C23_TransformOnlyAppendsIngestionDate ==
    [][(processor = "raw_to_trusted" /\ pc = "transform" /\ pc' # "transform") =>
          LET given == Val(extracted_data)
              returned == Val(transformed_data')
          IN  /\ pc' = "load"
              /\ exc' = None
              /\ IsSome(transformed_data')
              /\ DictKeys(returned) = DictKeys(given)
              /\ \A i \in 1..Len(given) :
                    LET before == given[i].val.dataframe
                        after == returned[i].val.dataframe
                    IN  /\ returned[i].val.trusted_table = given[i].val.trusted_table
                        /\ after.nrows = before.nrows
                        /\ SubSeq(after.columns, 1, Len(before.columns)) = before.columns
                        /\ IF HasColumn(before, INGESTION_DATE)
                           THEN after = before
                           ELSE /\ Len(after.columns) = Len(before.columns) + 1
                                /\ Last(after.columns) = INGESTION_DATE
    ]_vars

C23_Witness ==
    /\ processor = "raw_to_trusted"
    /\ pc = "load"
    /\ Len(Val(transformed_data)) = Len(GetAllTrustedTables)
    /\ \E i \in 1..Len(raw_reads) :
          /\ ReadObject(raw_files, raw_reads[i].object_name) # None
          /\ HasColumn(Val(ReadObject(raw_files, raw_reads[i].object_name)), INGESTION_DATE)
    /\ \E i \in 1..Len(raw_reads) :
          /\ ReadObject(raw_files, raw_reads[i].object_name) # None
          /\ ~HasColumn(Val(ReadObject(raw_files, raw_reads[i].object_name)), INGESTION_DATE)
    /\ \A i \in 1..Len(Val(transformed_data)) :
          HasColumn(Val(transformed_data)[i].val.dataframe, INGESTION_DATE)

\* the views of the statements that the query gateway accepted, in order
RegisteredViews(calls) ==
    SelectSeq2([i \in 1..Len(calls) |-> calls[i].ddl.view],
               [i \in 1..Len(calls) |-> calls[i].outcome = "ok"], 1)

\* C24: the post-process of Raw-to-Trusted leaves success, message and
\* rows_processed of the load result as they were, keeps every metadata
\* entry that load made with its value, keeps the entries of tables_created
\* in their order and appends to them the names of the views that were
\* registered; run() builds its result from that same load result.
C24_PostProcessOnlyEnriches ==
    [][(processor = "raw_to_trusted" /\ pc = "post_process" /\ pc' # "post_process") =>
          LET before == Val(load_result)
              after == Val(load_result')
              kept == Len(before.tables_created)
          IN  /\ IsSome(load_result')
              /\ after.success = before.success
              /\ after.message = before.message
              /\ after.rows_processed = before.rows_processed
              /\ \A k \in DOMAIN before.metadata :
                    /\ k \in DOMAIN after.metadata
                    /\ after.metadata[k] = before.metadata[k]
              /\ IsPrefix(before.tables_created, after.tables_created)
              /\ SubSeq(after.tables_created, kept + 1, Len(after.tables_created))
                    = RegisteredViews(view_calls')
    ]_vars

C24_Witness ==
    /\ processor = "raw_to_trusted"
    /\ RunReturned
    /\ Val(load_result).metadata.successful_loads = 2
    /\ RegisteredViews(view_calls) # <<>>
    /\ Len(Val(load_result).tables_created) = 2 + Len(RegisteredViews(view_calls))
    /\ Val(job_result).metadata["tables_created"] = Val(load_result).tables_created

\* whether the metadata m has the two readiness flags, both true
ReadinessFlagsSet(m) ==
    /\ "data_lake_ready" \in DOMAIN m
    /\ "analytics_ready" \in DOMAIN m
    /\ m["data_lake_ready"] = TRUE
    /\ m["analytics_ready"] = TRUE

\* C25: once the post-process of Raw-to-Trusted has returned, the metadata
\* of the load result has data_lake_ready and analytics_ready, both true,
\* whatever was written, read back or registered, and the result of the run
\* carries them.
C25_ReadinessFlagsAlwaysSet ==
    TrustedPostProcessed =>
        /\ ReadinessFlagsSet(Val(load_result).metadata)
        /\ RunReturned => ReadinessFlagsSet(Val(job_result).metadata)

C25_Witness ==
    /\ TrustedPostProcessed
    /\ RunReturned
    /\ write_calls = <<>>
    /\ view_calls = <<>>
    /\ Val(load_result).tables_created = <<>>
    /\ ReadinessFlagsSet(Val(job_result).metadata)

\* a run in which a view registration was refused has the flags too
C25_RefusedViewWitness ==
    /\ TrustedPostProcessed
    /\ ViewErrors # {}
    /\ ReadinessFlagsSet(Val(load_result).metadata)

\* the registry tables that have a trusted file with rows for the target
\* date, in registry order
TablesWithTrustedRows ==
    SelectSeq2(GetAllTrustedTables,
               [i \in 1..Len(GetAllTrustedTables) |->
                   LET key == TrustedKey(TRUSTED, TableKey(GetAllTrustedTables[i]),
                                         Val(ingestion_date))
                   IN  key \in DOMAIN trusted_store /\ ~IsEmpty(trusted_store[key])], 1)

\* C26: a view registration that fails stays with its table: post-process
\* asks for the view of every registry table that has a trusted file with
\* rows, in registry order, whatever the gateway did with the earlier ones;
\* a table without such a file is passed over; post-process raises nothing,
\* a refused view is not in tables_created, and the run ends SUCCESS.
C26_ViewFailureStaysWithItsTable ==
    TrustedPostProcessed =>
        /\ exc = None
        /\ [j \in 1..Len(view_calls) |-> view_calls[j].ddl.view] = TablesWithTrustedRows
        /\ Len(Val(load_result).tables_created)
              = Val(load_result).metadata.successful_loads + Len(RegisteredViews(view_calls))
        /\ RunReturned => Val(job_result).status = "SUCCESS"

C26_Witness ==
    /\ TrustedPostProcessed
    /\ RunReturned
    /\ Len(view_calls) = 4
    /\ view_calls[2].outcome = "raise"
    /\ RegisteredViews(view_calls) = <<TRUSTED_USERS, TRUSTED_DEVICES, TRUSTED_EVENTS>>
    /\ Val(job_result).status = "SUCCESS"

\* the registry tables whose trusted file for the target date is absent or
\* has no rows when post-process reads it back
EmptyReReads ==
    { GetAllTrustedTables[i] : i \in
        { j \in 1..Len(GetAllTrustedTables) :
            LET df == ParquetOf(trusted_store, GetAllTrustedTables[j], TRUSTED,
                                Val(ingestion_date))
            IN  df = None \/ IsEmpty(Val(df)) } }

\* C27: for a table whose re-read in post-process gives no table or an
\* empty one, no view DDL is executed, the final tables_created does not
\* have the table, and success is as load determined it.
C27_EmptyReReadLeavesTableOut ==
    TrustedPostProcessed =>
        LET lr == Val(load_result)
        IN  /\ \A t \in EmptyReReads :
                  /\ \A j \in 1..Len(view_calls) : view_calls[j].ddl.view # t
                  /\ \A j \in 1..Len(lr.tables_created) : lr.tables_created[j] # t
            /\ lr.success <=> lr.metadata.failed_loads = <<>>

\* a stage run whose load reported success = false and in which no phase
\* raised
UnsuccessfulLoadNoRaise ==
    /\ processor \in {"landing_to_raw", "raw_to_trusted"}
    /\ IsSome(load_result)
    /\ ~Val(load_result).success
    /\ exc = None

\* the status follows the exception alone, and the flag is not in the result
StatusIgnoresSuccessFlag ==
    /\ RunReturned => (Val(job_result).status = "SUCCESS" <=> exc = None)
    /\ (RunReturned /\ UnsuccessfulLoadNoRaise) =>
          /\ Val(job_result).status = "SUCCESS"
          /\ "success" \notin DOMAIN Val(job_result)
          /\ "success" \notin DOMAIN Val(job_result).metadata

\* C28 as it was stated: after such a run the job always exits with code 0.
C28_Original_UnsuccessfulLoadExitsZero ==
    /\ StatusIgnoresSuccessFlag
    /\ (job_pc = "done" /\ UnsuccessfulLoadNoRaise) => exit_code = Some(0)

\* C28: the status of the JobResult is SUCCESS exactly when no phase raised,
\* whatever the success flag of the load result; after a run with
\* success = false and no exception the JobResult is SUCCESS and has no
\* success entry, and the job exits with code 0 unless the cleanup in the
\* finally clause of JobManager.run raised, in which case it exits with 1.
C28_StatusIgnoresSuccessFlag ==
    /\ StatusIgnoresSuccessFlag
    /\ (job_pc = "done" /\ UnsuccessfulLoadNoRaise) =>
          /\ run_ret \in {"true", "raised"}
          /\ exit_code = Some(IF run_ret = "raised" THEN 1 ELSE 0)

C28_Witness ==
    /\ job_pc = "done"
    /\ processor = "raw_to_trusted"
    /\ UnsuccessfulLoadNoRaise
    /\ Len(Val(load_result).metadata.failed_loads) = 1
    /\ Val(job_result).status = "SUCCESS"
    /\ exit_code = Some(0)

\* the same for a failed copy of Landing-to-Raw
C28_FailedCopyWitness ==
    /\ job_pc = "done"
    /\ LandingLoaded
    /\ UnsuccessfulLoadNoRaise
    /\ Val(job_result).status = "SUCCESS"
    /\ exit_code = Some(0)

\* the tokens of the registry tables
RegistryTokens == {TableKey(GetAllTrustedTables[i]) : i \in 1..Len(GetAllTrustedTables)}

\* the object names that the extract of Raw-to-Trusted reads for a date
Stage2Reads(date) == {RawReads(date)[k].object_name : k \in 1..Len(RawReads(date))}

\* C29: every landing file of a registry table type that Landing-to-Raw
\* copies for a date is written under the key that the extract of
\* Raw-to-Trusted reads for that table and that date.
C29_Stage2ReadsWhatStage1Wrote ==
    LandingLoaded =>
        \A i \in 1..Len(copy_calls) :
            (copy_calls[i].outcome = "ok"
                /\ Val(transformed_data)[i].val.table_type \in RegistryTokens)
            => copy_calls[i].target_key \in Stage2Reads(Val(ingestion_date))

\* the Landing-to-Raw processor whose gateway could not be built
NoGateway == processor = "landing_to_raw" /\ ~use_trino

C30_NoDateWitness ==
    /\ NoGateway
    /\ job_pc = "done"
    /\ args_date = None
    /\ pc = "not_started"
    /\ exit_code = Some(1)

====
